---- MODULE Spec2Model ----
(***************************************************************************)
(* Vincent Plays Polymarket: the campaign orchestrator (src/src/campaign.ts,*)
(* the second Campaign class of the file), the sizing and constraint        *)
(* functions and the decision engine (src/src/strategy/sanity-check.ts),    *)
(* the trade and signal stores and the mention cursor.                      *)
(*                                                                          *)
(* Units.  Money is in cents, so that Math.round (to whole dollars) is a    *)
(* real operation.  Fractions of the configuration (0.02, 0.15, ...) are    *)
(* in basis points (1/10000).  Edge scores (0..1 in the code) are in        *)
(* hundredths.                                                              *)
(***************************************************************************)
EXTENDS Integers, Sequences, FiniteSets, Bags, TLC

VARIABLES
    pc,              \* where the process is: "down", "idle" (between ticks), or the await of tick() it is suspended at
    lastSeenId,      \* TwitterClient.lastSeenId (in memory; 0 = undefined)
    savedLastSeenId, \* campaign_state[twitter_last_seen_id] (0 = no row)
    timeline,        \* the mention timeline at the platform: timeline[id] = [author, day]
    today,           \* the current date (a day number)
    mentions,        \* tick(): const mentions (tweet ids, newest first)
    batch,           \* tick(): const signals, the result of enrichBatch (tweet ids)
    signals,         \* the signals table (set of tweet ids; tweet_id is UNIQUE)
    enrichCalls,     \* per tweet id, how many times it was handed to enrichBatch
    skipped,         \* tweet ids a tick fetched and did not hand to enrichBatch
    restored,        \* the constructor of this process found a saved lastSeenId
    portfolio,       \* tick(): const portfolio
    remaining,       \* tick(): opportunities of topOpportunities not yet evaluated
    answer,          \* evaluate(): the arbitration reply of the current iteration ("none": not asked)
    order,           \* tick(): const order of the current loop iteration
    result,          \* tick(): const result of placeBet
    written,         \* rows saveTrade inserted for the current order
    exitRules,       \* tick(): what setExitRules did for the current order
    attributed,      \* attributeTradeToContributors was called for the current order
    posted,          \* thread posted for the current order
    openTrades,      \* the trades table, rows with status 'open' (a bag)
    bets,            \* bets the execution collaborator accepted (a bag)
    realizedPnl,     \* the trades table: SUM(pnl) of the rows with status 'closed'
    closedAtVenue,   \* accepted bets the execution collaborator no longer holds (a bag)
    running,         \* Campaign.running
    loops,           \* loops[i]: where the i-th activation of start() is
    hour,            \* the current UTC hour
    lastDigest,      \* campaign_state[last_daily_digest_date] (0 = no row)
    digests,         \* digests[d]: whether date d saw no digest thread, one, or more
    allOpportunities,\* tick(): the opportunities findEdge returned, cluster after cluster
    topOpportunities,\* tick(): const topOpportunities
    evaluated,       \* the opportunities evaluate was called on, in call order
    batchMentions,   \* enrichBatch(): its argument mentions (the author of each)
    filtered,        \* enrichBatch(): const filtered (positions in batchMentions)
    chunkStart,      \* enrichBatch(): let i
    started,         \* positions in batchMentions whose enrichMention call has begun
    completed,       \* positions in batchMentions whose enrichMention call has returned
    mention,         \* enrichMention(): its argument (the engagement figures)
    classification,  \* enrichMention(): what the classifier call did
    enrichedSignal,  \* enrichMention(): its return value
    recentSignals,   \* clusterSignals(): the number of signals handed in (indices 0..n-1)
    grouping,        \* clusterSignals(): parsed.clusters, the signal_indices of each
    clusters,        \* clusterSignals(): its return value
    clustersLeft,    \* tick(): clusters the loop of step 4 has not reached yet
    cluster,         \* findEdge(): its arguments cluster and clusterWeight
    mappingAnswer,   \* findEdge(): the text the mapping collaborator answered
    opportunities,   \* findEdge(): its return value
    sizing,          \* calculatePositionSize(): its arguments
    positionSize,    \* calculatePositionSize(): its return value
    constraintInput,    \* the arguments of a call of checkPortfolioConstraints
    constraintResult,    \* what the call returned
    exitInput,          \* the arguments of a call of calculateExitLevels
    exitLevels,         \* what the call returned
    clock,              \* Date.now(), in minutes
    lastCacheTime,      \* EdgeScorer.lastCacheTime
    marketCache,        \* EdgeScorer.marketCache, as its length
    now,                \* getMarkets: the local now of the call in progress
    fetchLog,           \* the times of the calls of fetchActiveMarkets
    assetBalance,       \* IERC20(asset()).balanceOf(address(vault))
    reportedTotalAssets, \* VincentVault.reportedTotalAssets
    lastReportAt,       \* VincentVault.lastReportAt
    shares,             \* balanceOf: the vault shares of each holder
    manager,            \* VincentVault.manager
    accountant,         \* VincentVault.accountant
    blockTime,          \* block.timestamp
    vaultCall,          \* the last transaction sent to the vault
    label,              \* withRetry: the label of the call in progress
    maxRetries,         \* withRetry: options.maxRetries
    attempt,            \* withRetry: the loop counter
    attemptLog,         \* how each invocation of fn settled, in order
    sleeps,             \* the calls of sleep
    placed,             \* the placement requests the execution collaborator accepted
    contributors,       \* the contributors table, by user_id
    tradeSignals,       \* order.contributingSignals of the last executed trade
    executedTrades,     \* the executed trades so far
    firstFlags,         \* per user, the executed trades whose earliest signal was theirs
    contributions       \* per user, the executed trades they contributed to

ingestVars == <<lastSeenId, savedLastSeenId, timeline, today, mentions, batch,
                signals, enrichCalls, skipped, restored>>
tradeVars == <<portfolio, remaining, answer, order, result, written,
               exitRules, attributed, posted, openTrades, bets>>
bookVars == <<realizedPnl, closedAtVenue>>
loopVars == <<running, loops, hour, lastDigest, digests>>
rankVars == <<allOpportunities, topOpportunities, evaluated>>
enrichVars == <<batchMentions, filtered, chunkStart, started, completed>>
mentionVars == <<mention, classification, enrichedSignal>>
clusterVars == <<recentSignals, grouping, clusters>>
edgeVars == <<clustersLeft, cluster, mappingAnswer, opportunities>>
sizeVars == <<sizing, positionSize>>
checkVars == <<constraintInput, constraintResult>>
exitVars == <<exitInput, exitLevels>>
cacheVars == <<clock, lastCacheTime, marketCache, now, fetchLog>>
vaultVars == <<assetBalance, reportedTotalAssets, lastReportAt, shares, manager, accountant, blockTime, vaultCall>>
retryVars == <<label, maxRetries, attempt, attemptLog, sleeps, placed>>
attributionVars == <<contributors, tradeSignals, executedTrades, firstFlags, contributions>>
vars == <<pc, ingestVars, tradeVars, bookVars, loopVars, rankVars, enrichVars, mentionVars, clusterVars, edgeVars, sizeVars, checkVars, exitVars, cacheVars, vaultVars, retryVars, attributionVars>>

(***************************************************************************)
(* Configuration: DEFAULT_CONFIG with the environment overrides of         *)
(* loadConfig.                                                             *)
(***************************************************************************)
Bankroll == 200000
BasePositionPct == 200
MaxPositionPct == 500
MinPositionUsd == 5000
MaxOpenPositions == 10
MaxThemeExposurePct == 1500
CashReservePct == 2000
DrawdownBreakerPct == 5000
MinSignalsToAct == 5
MinEdgeScore == 30
MaxSignalsPerUserPerDay == 2

config ==
    [bankroll |-> Bankroll,
     basePositionPct |-> BasePositionPct,
     maxPositionPct |-> MaxPositionPct,
     minPositionUsd |-> MinPositionUsd,
     maxOpenPositions |-> MaxOpenPositions,
     maxThemeExposurePct |-> MaxThemeExposurePct,
     cashReservePct |-> CashReservePct,
     drawdownBreakerPct |-> DrawdownBreakerPct,
     minSignalsToAct |-> MinSignalsToAct,
     minEdgeScore |-> MinEdgeScore,
     maxSignalsPerUserPerDay |-> MaxSignalsPerUserPerDay]

HighConviction == 80
ModerateConviction == 50
TopN == 3
WatchPublishMin == 3

(***************************************************************************)
(* Inputs of the collaborators.                                            *)
(***************************************************************************)
Markets == {"m1", "m2", "m3", "m4"}
SomeMarkets == {"m1", "m2"}
OneMarket == {"m1"}

\* market.question, lower-cased, as its words
Question(m) ==
    CASE m = "m1" -> <<"will", "btc", "hit">>
      [] m = "m2" -> <<"will", "eth", "flip">>
      [] m = "m3" -> <<"fed", "cuts">>
      [] OTHER    -> <<"btc", "etf">>

EdgeScores == {20, 60, 90}
SignalCounts == {2, 3, 5}
Answers == {"TRADE", "PASS", "WATCH", "HOLD", "{}", "null", "unparseable"}
BetOutcomes == {"accepted", "rejected"}

MaxUnrecorded == 1
MaxBets == 14

Authors == {"alice", "bob"}
MaxMentions == 3
MaxDays == 2
MaxResults == 100

\* activations of start() on one Campaign
MaxStarts == 2
Activations == 1..MaxStarts
NoLoop == [at |-> "none", threw |-> FALSE, todayStr |-> 0]
NoLoops == [i \in Activations |-> NoLoop]

\* the hours of a day the model tells apart: before and in the digest window
DigestHour == 18
FirstHour == DigestHour - 1

NoOrder == [decision |-> "none", market |-> "none", size |-> 0,
            edgeScore |-> 0, contributingSignals |-> 0, reasoning |-> "none"]
NoExitRules == [called |-> FALSE, threw |-> FALSE, stopLossSet |-> FALSE, takeProfitSet |-> FALSE]
Null == [kind |-> "null", signalType |-> "none", weight |-> 0]
NoSignal == [kind |-> "none", signalType |-> "none", weight |-> 0]
NoEngagement == [likes |-> 0, retweets |-> 0, quoteTweets |-> 0]
NoMention == [engagement |-> NoEngagement, conversationContext |-> <<>>, quotedTweet |-> <<>>]
NoClassification == [kind |-> "none", is_noise |-> "undefined", signal_type |-> "undefined"]
NoCluster == [clusterWeight |-> 0, urgency |-> {}]
NoAnswer == [kind |-> "none", mappings |-> <<>>]
NoSizing == [edgeScore |-> 0, bankroll |-> 0, cashAvailable |-> 0, maxPositionPct |-> 0]
NoConstraintInput == [edgeScore |-> 0, market |-> "none", size |-> 0, bankroll |-> 0]
NoCheck == [allowed |-> TRUE, reason |-> "none"]
NoExitInput == [entryPrice |-> 0, direction |-> "none", stopLossPercent |-> 0,
                takeProfitMultiple |-> 0]
NoExitLevels == [stopLoss |-> [num |-> 0, den |-> 1], takeProfit |-> [num |-> 0, den |-> 1]]
\* EdgeScorer.cacheIntervalMs, in minutes
cacheIntervalMs == 15
MaxClock == 45
MaxFetches == 3
\* the clock when the scorer is constructed: later than one interval after 0
StartTime == cacheIntervalMs + 5
Holders == {"alice", "bob"}
NoCall == [op |-> "none", caller |-> "none", amount |-> 0, reverted |-> FALSE]
\* a contributor's row after updateContributor: the counters at their defaults
NoContributions == [signals_that_led_to_trades |-> 0, first_to_flag_count |-> 0,
                    best_signal |-> "", profitable_contributions |-> 0]
NoResult == [success |-> FALSE, txHash |-> "none"]
NoPortfolio == [bankroll |-> 0, cashAvailable |-> 0, positions |-> EmptyBag,
                totalPnl |-> 0]

(***************************************************************************)
(* Arithmetic.                                                             *)
(***************************************************************************)
\* x * fraction, the fraction in basis points
PctOf(x, bp) == (x * bp) \div 10000

\* Math.round to whole dollars: floor(x + 0.5)
Round(x) == ((x + 50) \div 100) * 100

Min(a, b) == IF a < b THEN a ELSE b

RECURSIVE SumSizes(_, _)
SumSizes(S, b) ==
    IF S = {} THEN 0
    ELSE LET x == CHOOSE y \in S : TRUE
         IN  b[x] * x.size + SumSizes(S \ {x}, b)

\* reduce((sum, t) => sum + (t.size || 0), 0) over a bag of rows
TotalSize(b) == SumSizes(DOMAIN b, b)

\* the sub-bag of the rows satisfying Keep
FilterBag(b, Keep(_)) == [x \in {y \in DOMAIN b : Keep(y)} |-> b[x]]

\* String.includes, on questions as word sequences
Includes(q, w) == \E i \in 1..Len(q) : q[i] = w

(***************************************************************************)
(* Position sizing and portfolio constraints (sizing.js).                  *)
(* An opportunity is [market, edgeScore, signalCount]; a portfolio is      *)
(* [bankroll, cashAvailable, positions], positions a bag of open rows.     *)
(***************************************************************************)
\* getConvictionLevel with >= for >
getConvictionLevelInclusive(edgeScore) ==
    IF edgeScore >= HighConviction THEN "high"
    ELSE IF edgeScore >= ModerateConviction THEN "moderate"
    ELSE "low"

getConvictionLevel(edgeScore) ==
    IF edgeScore > HighConviction THEN "high"
    ELSE IF edgeScore > ModerateConviction THEN "moderate"
    ELSE "low"

Max(a, b) == IF a > b THEN a ELSE b

\* calculatePositionSize with Math.max for Math.min at the cash reserve
calculatePositionSizeMax(opportunity, p, cfg) ==
    LET conviction == getConvictionLevel(opportunity.edgeScore)
        pct == CASE conviction = "high"     -> cfg.basePositionPct * 2
                 [] conviction = "moderate" -> cfg.basePositionPct
                 [] OTHER                   -> cfg.basePositionPct \div 2
        capped == Min(PctOf(p.bankroll, pct), PctOf(p.bankroll, cfg.maxPositionPct))
        minCash == PctOf(p.bankroll, cfg.cashReservePct)
        maxSpend == p.cashAvailable - minCash
    IN  IF capped < cfg.minPositionUsd THEN 0
        ELSE IF maxSpend < cfg.minPositionUsd THEN 0
        ELSE Round(Max(capped, maxSpend))

calculatePositionSize(opportunity, p, cfg) ==
    LET conviction == getConvictionLevel(opportunity.edgeScore)
        pct == CASE conviction = "high"     -> cfg.basePositionPct * 2
                 [] conviction = "moderate" -> cfg.basePositionPct
                 [] OTHER                   -> cfg.basePositionPct \div 2
        capped == Min(PctOf(p.bankroll, pct), PctOf(p.bankroll, cfg.maxPositionPct))
        minCash == PctOf(p.bankroll, cfg.cashReservePct)
        maxSpend == p.cashAvailable - minCash
    IN  IF capped < cfg.minPositionUsd THEN 0
        ELSE IF maxSpend < cfg.minPositionUsd THEN 0
        ELSE Round(Min(capped, maxSpend))

\* checkPortfolioConstraints with the duplicate-position check ahead of the
\* theme-exposure check
checkPortfolioConstraintsDuplicateFirst(opportunity, p, cfg) ==
    LET firstWord == Question(opportunity.market)[1]
        themed == FilterBag(p.positions, LAMBDA r : Includes(r.market_question, firstWord))
        themeExposure == TotalSize(themed)
    IN  IF BagCardinality(p.positions) >= cfg.maxOpenPositions
            THEN [allowed |-> FALSE, reason |-> "max open positions"]
        ELSE IF p.bankroll <= PctOf(cfg.bankroll, cfg.drawdownBreakerPct)
            THEN [allowed |-> FALSE, reason |-> "drawdown breaker"]
        ELSE IF \E r \in DOMAIN p.positions : r.market_id = opportunity.market
            THEN [allowed |-> FALSE, reason |-> "already have a position"]
        ELSE IF themeExposure > PctOf(p.bankroll, cfg.maxThemeExposurePct)
            THEN [allowed |-> FALSE, reason |-> "theme exposure"]
        ELSE [allowed |-> TRUE, reason |-> "none"]

checkPortfolioConstraints(opportunity, p, cfg) ==
    LET firstWord == Question(opportunity.market)[1]
        themed == FilterBag(p.positions, LAMBDA r : Includes(r.market_question, firstWord))
        themeExposure == TotalSize(themed)
    IN  IF BagCardinality(p.positions) >= cfg.maxOpenPositions
            THEN [allowed |-> FALSE, reason |-> "max open positions"]
        ELSE IF p.bankroll <= PctOf(cfg.bankroll, cfg.drawdownBreakerPct)
            THEN [allowed |-> FALSE, reason |-> "drawdown breaker"]
        ELSE IF themeExposure > PctOf(p.bankroll, cfg.maxThemeExposurePct)
            THEN [allowed |-> FALSE, reason |-> "theme exposure"]
        ELSE IF \E r \in DOMAIN p.positions : r.market_id = opportunity.market
            THEN [allowed |-> FALSE, reason |-> "already have a position"]
        ELSE [allowed |-> TRUE, reason |-> "none"]

(***************************************************************************)
(* The decision engine.  reply is the arbitration collaborator's reply:    *)
(* a JSON object carrying that decision and a reasoning, "{}" (an object   *)
(* with neither), "null" (the JSON text null), or "unparseable" (text      *)
(* JSON.parse rejects).  A JSON value is a record with its kind.           *)
(***************************************************************************)
safeParseLLMJson(reply, defaultValue) ==
    CASE reply = "unparseable" -> defaultValue
      [] reply = "null"        -> [kind |-> "null"]
      [] reply = "{}"          -> [kind |-> "object", decision |-> "undefined",
                                   reasoning |-> "undefined"]
      [] OTHER                 -> [kind |-> "object", decision |-> reply,
                                   reasoning |-> "llm"]

ParseDefault ==
    [kind |-> "object", decision |-> "PASS", reasoning |-> "Failed to parse LLM response"]

\* the arbitration collaborator is asked only when no guard decides
Arbitrated(opportunity, p) ==
    /\ checkPortfolioConstraints(opportunity, p, config).allowed
    /\ opportunity.edgeScore >= config.minEdgeScore
    /\ opportunity.signalCount >= config.minSignalsToAct

\* FinalDecision without the downgrade
FinalDecisionKept(decision, size) == decision

\* if size calculation returned 0, downgrade to PASS
FinalDecision(decision, size) ==
    IF decision = "TRADE" /\ size = 0 THEN "PASS" ELSE decision

\* parsed.decision on null: a TypeError leaves evaluate
evaluateThrows(opportunity, p, reply) ==
    /\ Arbitrated(opportunity, p)
    /\ safeParseLLMJson(reply, ParseDefault).kind = "null"

\* evaluate with the signal-count guard ahead of the edge-score guard
evaluateSignalsFirst(opportunity, p, reply) ==
    LET constraintCheck == checkPortfolioConstraints(opportunity, p, config)
        base == [decision |-> "PASS", market |-> opportunity.market, size |-> 0,
                 edgeScore |-> opportunity.edgeScore,
                 contributingSignals |-> opportunity.signalCount,
                 reasoning |-> "none"]
        parsed == safeParseLLMJson(reply, ParseDefault)
        size == IF parsed.decision = "TRADE"
                THEN calculatePositionSize(opportunity, p, config) ELSE 0
        finalDecision == FinalDecision(parsed.decision, size)
    IN  IF ~constraintCheck.allowed
            THEN [base EXCEPT !.reasoning = constraintCheck.reason]
        ELSE IF opportunity.signalCount < config.minSignalsToAct
            THEN [base EXCEPT !.decision = "WATCH", !.reasoning = "Waiting for more signals"]
        ELSE IF opportunity.edgeScore < config.minEdgeScore
            THEN [base EXCEPT !.reasoning = "Edge score too low"]
        ELSE [base EXCEPT !.decision = finalDecision, !.size = size,
                          !.reasoning = parsed.reasoning]

evaluate(opportunity, p, reply) ==
    LET constraintCheck == checkPortfolioConstraints(opportunity, p, config)
        base == [decision |-> "PASS", market |-> opportunity.market, size |-> 0,
                 edgeScore |-> opportunity.edgeScore,
                 contributingSignals |-> opportunity.signalCount,
                 reasoning |-> "none"]
        parsed == safeParseLLMJson(reply, ParseDefault)
        size == IF parsed.decision = "TRADE"
                THEN calculatePositionSize(opportunity, p, config) ELSE 0
        finalDecision == FinalDecision(parsed.decision, size)
    IN  IF ~constraintCheck.allowed
            THEN [base EXCEPT !.reasoning = constraintCheck.reason]
        ELSE IF opportunity.edgeScore < config.minEdgeScore
            THEN [base EXCEPT !.reasoning = "Edge score too low"]
        ELSE IF opportunity.signalCount < config.minSignalsToAct
            THEN [base EXCEPT !.decision = "WATCH", !.reasoning = "Waiting for more signals"]
        ELSE [base EXCEPT !.decision = finalDecision, !.size = size,
                          !.reasoning = parsed.reasoning]

(***************************************************************************)
(* The trades store.                                                       *)
(***************************************************************************)
Lower(decision) ==
    CASE decision = "PASS"  -> "pass"
      [] decision = "WATCH" -> "watch"
      [] decision = "TRADE" -> "trade"
      [] OTHER              -> "hold"

\* the row saveTrade inserts for an order
saveTrade(o, txHash) ==
    [market_id |-> o.market, market_question |-> Question(o.market),
     decision |-> o.decision, size |-> o.size,
     status |-> IF o.decision = "TRADE" THEN "open" ELSE Lower(o.decision),
     tx_hash |-> txHash]

\* the table after the insert: rows of status open are what getOpenTrades reads
Inserted(table, row) ==
    IF row.status = "open" THEN table (+) SetToBag({row}) ELSE table

getOpenTrades == openTrades

\* SUM(pnl) over the rows with status 'closed'
getTradeStats == [pnl |-> realizedPnl]

\* the bankroll the portfolio state reports for a campaign with these stats
bankrollWithPnl(cfg, stats) == cfg.bankroll + stats.pnl

\* const bankroll = this.config.bankroll
bankrollOf(cfg, stats) == cfg.bankroll

\* the result of executor.getPositions() is not used
getPortfolioState ==
    LET stats == getTradeStats
        totalPositionValue == TotalSize(getOpenTrades)
        bankroll == bankrollOf(config, stats)
    IN  [bankroll |-> bankroll,
         cashAvailable |-> bankroll - totalPositionValue,
         positions |-> getOpenTrades,
         totalPnl |-> stats.pnl]

\* accepted bets the ledger does not show as open trades
Unrecorded == BagCardinality(bets) - BagCardinality(openTrades)

(***************************************************************************)
(* The state after construction: an empty store, a running process.        *)
(***************************************************************************)
tickLocals == <<mentions, batch, portfolio, remaining, answer, order, result,
                written, exitRules, attributed, posted>>

\* the locals of tick() when no tick is in progress
NoTick ==
    /\ mentions' = <<>>
    /\ batch' = {}
    /\ portfolio' = NoPortfolio
    /\ remaining' = 0
    /\ answer' = "none"
    /\ order' = NoOrder
    /\ result' = NoResult
    /\ written' = <<>>
    /\ exitRules' = NoExitRules
    /\ attributed' = FALSE
    /\ posted' = "none"

Init ==
    /\ pc = "idle"
    /\ lastSeenId = 0
    /\ savedLastSeenId = 0
    /\ timeline = <<>>
    /\ today = 1
    /\ mentions = <<>>
    /\ batch = {}
    /\ signals = {}
    /\ enrichCalls = <<>>
    /\ skipped = {}
    /\ restored = FALSE
    /\ portfolio = NoPortfolio
    /\ remaining = 0
    /\ answer = "none"
    /\ order = NoOrder
    /\ result = NoResult
    /\ written = <<>>
    /\ exitRules = NoExitRules
    /\ attributed = FALSE
    /\ posted = "none"
    /\ openTrades = EmptyBag
    /\ bets = EmptyBag
    /\ realizedPnl = 0
    /\ closedAtVenue = EmptyBag
    /\ running = FALSE
    /\ loops = NoLoops
    /\ hour = FirstHour
    /\ lastDigest = 0
    /\ digests = [d \in 1..MaxDays |-> "none"]
    /\ allOpportunities = <<>>
    /\ topOpportunities = <<>>
    /\ evaluated = <<>>
    /\ batchMentions = <<>>
    /\ filtered = <<>>
    /\ chunkStart = 0
    /\ started = {}
    /\ completed = {}
    /\ mention = NoMention
    /\ classification = NoClassification
    /\ enrichedSignal = NoSignal
    /\ recentSignals = 0
    /\ grouping = <<>>
    /\ clusters = <<>>
    /\ clustersLeft = 0
    /\ cluster = NoCluster
    /\ mappingAnswer = NoAnswer
    /\ opportunities = <<>>
    /\ sizing = NoSizing
    /\ positionSize = 0
    /\ constraintInput = NoConstraintInput
    /\ constraintResult = NoCheck
    /\ exitInput = NoExitInput
    /\ exitLevels = NoExitLevels
    /\ clock = StartTime
    /\ lastCacheTime = 0
    /\ marketCache = 0
    /\ now = 0
    /\ fetchLog = <<>>
    /\ assetBalance = 0
    /\ reportedTotalAssets = 0
    /\ lastReportAt = 0
    /\ shares = [h \in Holders |-> 0]
    /\ manager = "manager"
    /\ accountant = "accountant"
    /\ blockTime = 1
    /\ vaultCall = NoCall
    /\ label = "none"
    /\ maxRetries = 0
    /\ attempt = 0
    /\ attemptLog = <<>>
    /\ sleeps = 0
    /\ placed = 0
    /\ contributors = [u \in Authors |-> NoContributions]
    /\ tradeSignals = <<>>
    /\ executedTrades = 0
    /\ firstFlags = [u \in Authors |-> 0]
    /\ contributions = [u \in Authors |-> 0]

(***************************************************************************)
(* tick(), steps 5 and 6: rank, decide, execute, persist, publish.         *)
(***************************************************************************)
\* getPortfolioState, then sort by edgeScore descending and slice(0, 3)
Rank ==
    /\ pc = "clustered"
    /\ portfolio' = getPortfolioState
    /\ \E n \in 0..TopN : remaining' = n
    /\ order' = NoOrder
    /\ pc' = "loop"
    /\ UNCHANGED <<attributionVars, retryVars, vaultVars, cacheVars, exitVars, checkVars, sizeVars, edgeVars, clusterVars, mentionVars, enrichVars, exitRules, bookVars, loopVars, rankVars, ingestVars, answer, result, written, attributed, posted, openTrades, bets>>

\* a pass thread whatever the number of contributing signals
PostsPassAlways(o, cfg) == TRUE

\* only tweet about passes if there were enough signals
PostsPass(o, cfg) == o.contributingSignals >= cfg.minSignalsToAct

PostsWatch(o) == o.contributingSignals >= WatchPublishMin

\* the list is sorted: the next opportunity scores no higher than the last
PrevEdge == IF order = NoOrder THEN 100 ELSE order.edgeScore

\* the replies that tell apart what evaluate does: every reply when the
\* arbitration collaborator is asked, one (unread) when a guard decides
Replies(opp, answers) ==
    IF Arbitrated(opp, portfolio) THEN answers ELSE {CHOOSE a \in answers : TRUE}

\* one iteration of the loop up to its first await that reaches a collaborator
\* holding money: evaluate, then persist and publish a PASS or a WATCH, or
\* send the bet
EvaluateOn(markets, edges, counts, answers) ==
    /\ pc = "loop"
    /\ remaining > 0
    /\ \E m \in markets, e \in {x \in edges : x <= PrevEdge}, n \in counts :
       \E a \in Replies([market |-> m, edgeScore |-> e, signalCount |-> n], answers),
          postOk \in BOOLEAN :
        LET opp == [market |-> m, edgeScore |-> e, signalCount |-> n]
            o == evaluate(opp, portfolio, a)
            row == saveTrade(o, "none")
        IN  /\ order' = IF evaluateThrows(opp, portfolio, a) THEN NoOrder ELSE o
            /\ answer' = IF Arbitrated(opp, portfolio) THEN a ELSE "none"
            /\ remaining' = remaining - 1
            /\ result' = NoResult
            /\ exitRules' = NoExitRules
            /\ attributed' = FALSE
            /\ IF evaluateThrows(opp, portfolio, a)
                 THEN /\ written' = <<>>
                      /\ posted' = "none"
                      /\ pc' = "threw"
                      /\ UNCHANGED openTrades
               ELSE IF o.decision = "TRADE" /\ o.size > 0
                 THEN /\ written' = <<>>
                      /\ posted' = "none"
                      /\ pc' = "placeBet"
                      /\ UNCHANGED openTrades
               ELSE IF o.decision = "PASS"
                 THEN /\ written' = <<row>>
                      /\ openTrades' = Inserted(openTrades, row)
                      /\ posted' = IF PostsPass(o, config) /\ postOk
                                   THEN "pass" ELSE "none"
                      /\ pc' = "loop"
               ELSE IF o.decision = "WATCH"
                 THEN /\ written' = <<row>>
                      /\ openTrades' = Inserted(openTrades, row)
                      /\ posted' = IF PostsWatch(o) /\ postOk
                                   THEN "watch" ELSE "none"
                      /\ pc' = "loop"
               ELSE /\ written' = <<>>
                    /\ posted' = "none"
                    /\ pc' = "loop"
                    /\ UNCHANGED openTrades
    /\ UNCHANGED <<attributionVars, retryVars, vaultVars, cacheVars, exitVars, checkVars, sizeVars, edgeVars, clusterVars, mentionVars, enrichVars, bookVars, loopVars, rankVars, ingestVars, portfolio, bets>>

\* executor.placeBet: the request reaches the collaborator, which accepts or
\* rejects it; the response is on its way back
PlaceBetOn(outcomes) ==
    /\ pc = "placeBet"
    /\ \E outcome \in outcomes :
        /\ bets' = IF outcome = "rejected" THEN bets
                   ELSE bets (+) SetToBag({[market_id |-> order.market, size |-> order.size]})
        /\ result' = IF outcome = "accepted"
                     THEN [success |-> TRUE, txHash |-> "tx"]
                     ELSE [success |-> FALSE, txHash |-> "none"]
    /\ pc' = "placed"
    /\ UNCHANGED <<attributionVars, retryVars, vaultVars, cacheVars, exitVars, checkVars, sizeVars, edgeVars, clusterVars, mentionVars, enrichVars, exitRules, bookVars, loopVars, rankVars, ingestVars, portfolio, remaining, answer, order, written,
                   attributed, posted, openTrades>>

\* Recorded without the look at result.success
RecordedAsIs(o, res) == o

\* the order tick() persists once placeBet has answered
Recorded(o, res) ==
    IF res.success THEN o ELSE [o EXCEPT !.decision = "PASS"]

\* after placeBet: saveTrade(order, txHash), or saveTrade of the order as PASS
RecordBet ==
    /\ pc = "placed"
    /\ LET row == saveTrade(Recorded(order, result), result.txHash)
       IN  /\ written' = Append(written, row)
           /\ openTrades' = Inserted(openTrades, row)
    /\ pc' = IF result.success THEN "exitRules" ELSE "loop"
    /\ UNCHANGED <<attributionVars, retryVars, vaultVars, cacheVars, exitVars, checkVars, sizeVars, edgeVars, clusterVars, mentionVars, enrichVars, exitRules, bookVars, loopVars, rankVars, ingestVars, portfolio, remaining, answer, order, result,
                   attributed, posted, bets>>

\* what a request to the Trade Manager's /api/rules can do: answer 2xx,
\* answer another status, or fail after the retries
RuleOutcomes == {"ok", "http", "network"}

\* setExitRules with the rejection of a request left uncaught
setExitRulesUncaught(o, sl, tp) ==
    [called |-> TRUE,
     threw |-> sl = "network" \/ tp = "network",
     stopLossSet |-> sl = "ok",
     takeProfitSet |-> sl # "network" /\ tp = "ok"]

\* each request sits in its own try/catch: a status other than 2xx and a
\* rejection are logged and leave the flag false
setExitRules(o, sl, tp) ==
    [called |-> TRUE,
     threw |-> FALSE,
     stopLossSet |-> sl = "ok",
     takeProfitSet |-> tp = "ok"]

\* setExitRules, then attribute, then post the entry thread, best effort; an
\* exception of setExitRules would leave tick()
SetExitRules ==
    /\ pc = "exitRules"
    /\ \E sl \in RuleOutcomes, tp \in RuleOutcomes, postOk \in BOOLEAN :
        LET res == setExitRules(order, sl, tp)
        IN  /\ exitRules' = res
            /\ attributed' = ~res.threw
            /\ posted' = IF postOk /\ ~res.threw THEN "entry" ELSE "none"
            /\ pc' = IF res.threw THEN "threw" ELSE "loop"
    /\ UNCHANGED <<attributionVars, retryVars, vaultVars, cacheVars, exitVars, checkVars, sizeVars, edgeVars, clusterVars, mentionVars, enrichVars, bookVars, loopVars, rankVars, ingestVars, portfolio, remaining, answer, order, result,
                   written, openTrades, bets>>

\* the loop is over: tick() returns
TickEnd ==
    /\ pc = "loop"
    /\ remaining = 0
    /\ pc' = "idle"
    /\ NoTick
    /\ UNCHANGED <<attributionVars, retryVars, vaultVars, cacheVars, exitVars, checkVars, sizeVars, edgeVars, clusterVars, mentionVars, enrichVars, bookVars, loopVars, rankVars, lastSeenId, savedLastSeenId, timeline, today, signals,
                   enrichCalls, skipped, restored, openTrades, bets>>

(***************************************************************************)
(* tick(), steps 1 to 3: fetch, persist the cursor, rate-limit, enrich,     *)
(* persist the signals.                                                     *)
(***************************************************************************)
Range(seq) == {seq[i] : i \in 1..Len(seq)}

\* the ids lo+1..hi, newest first
RECURSIVE Descending(_, _)
Descending(hi, lo) == IF hi <= lo THEN <<>> ELSE <<hi>> \o Descending(hi - 1, lo)

\* userMentionTimeline with since_id: the mentions newer than sinceId, newest
\* first, at most max_results of them
Timeline(sinceId) ==
    LET all == Descending(Len(timeline), sinceId)
    IN  SubSeq(all, 1, Min(Len(all), MaxResults))

\* fetchMentions with the oldest mention as the cursor
OldestId(ms) == ms[Len(ms)]

\* fetchMentions: this.lastSeenId = mentions[0].tweetId
NewestId(ms) == ms[1]

\* the constructor without the restore
RestoredNothing(saved) == 0

\* the constructor: getCampaignState(LAST_SEEN_ID_KEY), setLastSeenId
RestoredLastSeenId(saved) == saved

\* COUNT(*) of the author's signals whose timestamp is after today's midnight
getUserSignalCountToday(handle) ==
    Cardinality({id \in signals :
        timeline[id].author = handle /\ timeline[id].day >= today})

\* signals whose timestamp is within hoursBack = 24 hours
getRecentSignals(table) == {id \in table : timeline[id].day > today - 1}

\* somebody tags the account
Mention ==
    /\ Len(timeline) < MaxMentions
    /\ \E a \in Authors : timeline' = Append(timeline, [author |-> a, day |-> today])
    /\ enrichCalls' = Append(enrichCalls, 0)
    /\ UNCHANGED <<attributionVars, retryVars, vaultVars, cacheVars, exitVars, checkVars, sizeVars, edgeVars, clusterVars, mentionVars, enrichVars, bookVars, loopVars, rankVars, pc, lastSeenId, savedLastSeenId, today, mentions, batch, signals,
                   skipped, restored, tradeVars>>

\* midnight passes
NextDay ==
    /\ today < MaxDays
    /\ today' = today + 1
    /\ hour' = FirstHour
    /\ UNCHANGED <<attributionVars, retryVars, vaultVars, cacheVars, exitVars, checkVars, sizeVars, edgeVars, clusterVars, mentionVars, enrichVars, bookVars, rankVars, running, loops, lastDigest, digests, pc, lastSeenId, savedLastSeenId, timeline, mentions, batch, signals,
                   enrichCalls, skipped, restored, tradeVars>>

\* tick() up to the return of fetchMentions; an empty result ends the tick
Fetch ==
    /\ pc = "idle"
    /\ LET ms == Timeline(lastSeenId)
       IN  /\ ms # <<>>
           /\ mentions' = ms
           /\ lastSeenId' = NewestId(ms)
    /\ pc' = "fetched"
    /\ UNCHANGED <<attributionVars, retryVars, vaultVars, cacheVars, exitVars, checkVars, sizeVars, edgeVars, clusterVars, mentionVars, enrichVars, bookVars, loopVars, rankVars, savedLastSeenId, timeline, today, batch, signals, enrichCalls,
                   skipped, restored, tradeVars>>

\* setCampaignState(LAST_SEEN_ID_KEY, lastSeenId)
PersistCursor ==
    /\ pc = "fetched"
    /\ savedLastSeenId' = IF lastSeenId # 0 THEN lastSeenId ELSE savedLastSeenId
    /\ pc' = "cursorSaved"
    /\ UNCHANGED <<attributionVars, retryVars, vaultVars, cacheVars, exitVars, checkVars, sizeVars, edgeVars, clusterVars, mentionVars, enrichVars, bookVars, loopVars, rankVars, lastSeenId, timeline, today, mentions, batch, signals, enrichCalls,
                   skipped, restored, tradeVars>>

\* the rate-limit filter, then enrichBatch: every mention that passes the
\* filter is handed over; the enricher returns a signal for some of them
\* (not for filtered accounts, noise and failed classifications)
EnrichBatch ==
    /\ pc = "cursorSaved"
    /\ LET rateLimited == {id \in Range(mentions) :
               getUserSignalCountToday(timeline[id].author) < config.maxSignalsPerUserPerDay}
       IN  /\ enrichCalls' = [id \in DOMAIN enrichCalls |->
                                 IF id \in rateLimited THEN enrichCalls[id] + 1
                                 ELSE enrichCalls[id]]
           /\ skipped' = skipped \cup (Range(mentions) \ rateLimited)
           /\ \E enriched \in SUBSET rateLimited : batch' = enriched
    /\ pc' = "enriched"
    /\ UNCHANGED <<attributionVars, retryVars, vaultVars, cacheVars, exitVars, checkVars, sizeVars, edgeVars, clusterVars, mentionVars, enrichVars, bookVars, loopVars, rankVars, lastSeenId, savedLastSeenId, timeline, today, mentions, signals,
                   restored, tradeVars>>

\* saveSignal and updateContributor for every signal, then getRecentSignals:
\* with fewer than 2 recent signals the tick returns
SaveSignals ==
    /\ pc = "enriched"
    /\ signals' = signals \cup batch
    /\ pc' = IF Cardinality(getRecentSignals(signals \cup batch)) < 2
             THEN "idle" ELSE "clustered"
    /\ IF Cardinality(getRecentSignals(signals \cup batch)) < 2
         THEN /\ mentions' = <<>>
              /\ batch' = {}
         ELSE UNCHANGED <<mentions, batch>>
    /\ UNCHANGED <<attributionVars, retryVars, vaultVars, cacheVars, exitVars, checkVars, sizeVars, edgeVars, clusterVars, mentionVars, enrichVars, bookVars, loopVars, rankVars, lastSeenId, savedLastSeenId, timeline, today, enrichCalls,
                   skipped, restored, tradeVars>>

\* an exception inside tick() (a store call throws): start() logs it and
\* goes on to the next interval; the client keeps the cursor it has
TickFail ==
    /\ pc \in {"fetched", "cursorSaved", "enriched", "threw"}
    /\ skipped' = skipped \cup (IF pc \in {"fetched", "cursorSaved"}
                                 THEN Range(mentions) ELSE {})
    /\ pc' = "idle"
    /\ NoTick
    /\ UNCHANGED <<attributionVars, retryVars, vaultVars, cacheVars, exitVars, checkVars, sizeVars, edgeVars, clusterVars, mentionVars, enrichVars, bookVars, loopVars, rankVars, lastSeenId, savedLastSeenId, timeline, today, signals,
                   enrichCalls, restored, openTrades, bets>>

(***************************************************************************)
(* The process: SIGINT/SIGTERM (stop, closeDb, process.exit) or a crash,    *)
(* at any await; a restart builds a new Campaign over the same store.       *)
(***************************************************************************)
Shutdown ==
    /\ pc # "down"
    /\ (pc = "placed" /\ result.success) => Unrecorded <= MaxUnrecorded
    /\ pc' = "down"
    /\ lastSeenId' = 0
    /\ restored' = FALSE
    /\ skipped' = skipped \cup (IF pc = "cursorSaved" THEN Range(mentions) ELSE {})
    /\ NoTick
    /\ running' = FALSE
    /\ loops' = NoLoops
    /\ UNCHANGED <<attributionVars, retryVars, vaultVars, cacheVars, exitVars, checkVars, sizeVars, edgeVars, clusterVars, mentionVars, enrichVars, bookVars, rankVars, hour, lastDigest, digests, savedLastSeenId,
                   timeline, today, signals, enrichCalls, openTrades, bets>>

\* new Campaign(...): restore lastSeenId from campaign_state
Restart ==
    /\ pc = "down"
    /\ pc' = "idle"
    /\ lastSeenId' = RestoredLastSeenId(savedLastSeenId)
    /\ restored' = (savedLastSeenId # 0)
    /\ UNCHANGED <<attributionVars, retryVars, vaultVars, cacheVars, exitVars, checkVars, sizeVars, edgeVars, clusterVars, mentionVars, enrichVars, bookVars, loopVars, rankVars, savedLastSeenId, timeline, today, mentions, batch, signals,
                   enrichCalls, skipped, tradeVars>>

(***************************************************************************)
(* The trading half of the campaign.  Steps 1 to 4 of tick() (fetch,        *)
(* enrich, cluster, score) write nothing that steps 5 and 6 read except the *)
(* opportunities, which the collaborators decide: here they are one step.   *)
(***************************************************************************)
Ingested ==
    /\ pc = "idle"
    /\ pc' = "clustered"
    /\ UNCHANGED <<attributionVars, retryVars, vaultVars, cacheVars, exitVars, checkVars, sizeVars, edgeVars, clusterVars, mentionVars, enrichVars, bookVars, loopVars, rankVars, ingestVars, tradeVars>>

Evaluate == EvaluateOn(SomeMarkets, EdgeScores, SignalCounts, Answers)

PlaceBet == PlaceBetOn(BetOutcomes)

NextTrade ==
    \/ Ingested
    \/ Rank
    \/ Evaluate
    \/ PlaceBet
    \/ RecordBet
    \/ SetExitRules
    \/ TickEnd
    \/ TickFail
    \/ Shutdown
    \/ Restart

SpecTrade == Init /\ [][NextTrade]_vars

(***************************************************************************)
(* The same half over the whole catalog, for the portfolio-wide limits:    *)
(* the process stays up and the arbitration answers are well-formed.       *)
(***************************************************************************)
EvaluateAny == EvaluateOn(Markets, {60, 90}, {5}, {"TRADE", "PASS"})

NextBook ==
    \/ Ingested
    \/ Rank
    \/ EvaluateAny
    \/ PlaceBet
    \/ RecordBet
    \/ SetExitRules
    \/ TickEnd

SpecBook == Init /\ [][NextBook]_vars

(***************************************************************************)
(* The ingesting half of the campaign.  Steps 4 to 6 of tick() write        *)
(* nothing that steps 1 to 3 read: here they are one step.                  *)
(***************************************************************************)
Traded ==
    /\ pc = "clustered"
    /\ pc' = "idle"
    /\ NoTick
    /\ UNCHANGED <<attributionVars, retryVars, vaultVars, cacheVars, exitVars, checkVars, sizeVars, edgeVars, clusterVars, mentionVars, enrichVars, exitRules, bookVars, loopVars, rankVars, lastSeenId, savedLastSeenId, timeline, today, signals,
                   enrichCalls, skipped, restored, openTrades, bets>>

NextIngest ==
    \/ Mention
    \/ NextDay
    \/ Fetch
    \/ PersistCursor
    \/ EnrichBatch
    \/ SaveSignals
    \/ TickFail
    \/ Traded
    \/ Shutdown
    \/ Restart

SpecIngest == Init /\ [][NextIngest]_vars

(***************************************************************************)
(* start() and stop(): the loop around tick(), the daily digest and the    *)
(* sleep.  What a tick does is in the steps above; here a tick is one step *)
(* that returns or throws.                                                 *)
(***************************************************************************)
\* start() with no catch around tick()
AfterTickRethrown(threw) == IF threw THEN "done" ELSE "digest"

\* try { await this.tick() } catch { log }: maybeSendDailyDigest is next
AfterTick(threw) == "digest"

\* start(): running = true, then the first tick() begins; the activations
\* are numbered in the order of the calls
Start ==
    /\ pc # "down"
    /\ \E i \in Activations :
        /\ loops[i].at = "none"
        /\ \A j \in 1..(i - 1) : loops[j].at # "none"
        /\ loops' = [loops EXCEPT ![i] = [NoLoop EXCEPT !.at = "tick"]]
    /\ running' = TRUE
    /\ UNCHANGED <<attributionVars, retryVars, vaultVars, cacheVars, exitVars, checkVars, sizeVars, edgeVars, clusterVars, mentionVars, enrichVars, pc, ingestVars, tradeVars, bookVars, rankVars, hour, lastDigest, digests>>

Stop ==
    /\ pc # "down"
    /\ running
    /\ running' = FALSE
    /\ UNCHANGED <<attributionVars, retryVars, vaultVars, cacheVars, exitVars, checkVars, sizeVars, edgeVars, clusterVars, mentionVars, enrichVars, pc, ingestVars, tradeVars, bookVars, rankVars, loops, hour,
                   lastDigest, digests>>

\* tick() returns or throws
TickReturns ==
    /\ \E i \in Activations, threw \in BOOLEAN :
        /\ loops[i].at = "tick"
        /\ loops' = [loops EXCEPT ![i] = [@ EXCEPT !.at = AfterTick(threw),
                                                   !.threw = threw]]
    /\ UNCHANGED <<attributionVars, retryVars, vaultVars, cacheVars, exitVars, checkVars, sizeVars, edgeVars, clusterVars, mentionVars, enrichVars, pc, ingestVars, tradeVars, bookVars, rankVars, running, hour,
                   lastDigest, digests>>

\* maybeSendDailyDigest up to its first await: the hour and the date checks
DigestCheck ==
    /\ \E i \in Activations :
        /\ loops[i].at = "digest"
        /\ loops' = [loops EXCEPT ![i] =
              IF hour # DigestHour \/ lastDigest = today
              THEN [@ EXCEPT !.at = "sleep"]
              ELSE [@ EXCEPT !.at = "posting", !.todayStr = today]]
    /\ UNCHANGED <<attributionVars, retryVars, vaultVars, cacheVars, exitVars, checkVars, sizeVars, edgeVars, clusterVars, mentionVars, enrichVars, pc, ingestVars, tradeVars, bookVars, rankVars, running, hour,
                   lastDigest, digests>>

\* getPortfolioState, clusterSignals or postThread throws: nothing is published
DigestFails ==
    /\ \E i \in Activations :
        /\ loops[i].at = "posting"
        /\ loops' = [loops EXCEPT ![i] = [@ EXCEPT !.at = "sleep", !.todayStr = 0]]
    /\ UNCHANGED <<attributionVars, retryVars, vaultVars, cacheVars, exitVars, checkVars, sizeVars, edgeVars, clusterVars, mentionVars, enrichVars, pc, ingestVars, tradeVars, bookVars, rankVars, running, hour,
                   lastDigest, digests>>

\* postThread: the platform publishes the thread
PostThread ==
    /\ \E i \in Activations :
        /\ loops[i].at = "posting"
        /\ loops' = [loops EXCEPT ![i] = [@ EXCEPT !.at = "posted"]]
    /\ digests' = [digests EXCEPT ![today] = IF @ = "none" THEN "one" ELSE "several"]
    /\ UNCHANGED <<attributionVars, retryVars, vaultVars, cacheVars, exitVars, checkVars, sizeVars, edgeVars, clusterVars, mentionVars, enrichVars, pc, ingestVars, tradeVars, bookVars, rankVars, running, hour,
                   lastDigest>>

\* setCampaignState(LAST_DIGEST_KEY, todayStr); if it throws the catch logs it
RecordDigest ==
    /\ \E i \in Activations, stored \in BOOLEAN :
        /\ loops[i].at = "posted"
        /\ loops' = [loops EXCEPT ![i] = [@ EXCEPT !.at = "sleep", !.todayStr = 0]]
        /\ lastDigest' = IF stored THEN loops[i].todayStr ELSE lastDigest
    /\ UNCHANGED <<attributionVars, retryVars, vaultVars, cacheVars, exitVars, checkVars, sizeVars, edgeVars, clusterVars, mentionVars, enrichVars, pc, ingestVars, tradeVars, bookVars, rankVars, running, hour,
                   digests>>

\* the sleep is over: while (this.running)
Sleep ==
    /\ \E i \in Activations :
        /\ loops[i].at = "sleep"
        /\ loops' = [loops EXCEPT ![i] =
              [@ EXCEPT !.at = IF running THEN "tick" ELSE "done"]]
    /\ UNCHANGED <<attributionVars, retryVars, vaultVars, cacheVars, exitVars, checkVars, sizeVars, edgeVars, clusterVars, mentionVars, enrichVars, pc, ingestVars, tradeVars, bookVars, rankVars, running, hour,
                   lastDigest, digests>>

AdvanceHour ==
    /\ hour < DigestHour
    /\ hour' = hour + 1
    /\ UNCHANGED <<attributionVars, retryVars, vaultVars, cacheVars, exitVars, checkVars, sizeVars, edgeVars, clusterVars, mentionVars, enrichVars, pc, ingestVars, tradeVars, bookVars, rankVars, running, loops,
                   lastDigest, digests>>

NextLoop ==
    \/ Start
    \/ Stop
    \/ TickReturns
    \/ DigestCheck
    \/ DigestFails
    \/ PostThread
    \/ RecordDigest
    \/ Sleep
    \/ AdvanceHour
    \/ NextDay
    \/ Shutdown
    \/ Restart

SpecLoop == Init /\ [][NextLoop]_vars

(***************************************************************************)
(* tick(), steps 4 and 5: the ranking.  An opportunity is its edgeScore,   *)
(* in hundredths; NaN stands for the score findEdge computes from a        *)
(* mapping without a numeric signal_implied_probability.                   *)
(***************************************************************************)
NaN == -1
EdgeValues == {30, 50, 90, NaN}
MaxOpportunities == 4

\* (a, b) => b.edgeScore - a.edgeScore; sort takes a NaN result as +0
Compare(a, b) == IF a = NaN \/ b = NaN THEN 0 ELSE b - a

\* a in front of sorted, behind the elements that do not sort after it
RECURSIVE Insert(_, _)
Insert(a, sorted) ==
    IF sorted = <<>> THEN <<a>>
    ELSE IF Compare(Head(sorted), a) > 0 THEN <<a>> \o sorted
    ELSE <<Head(sorted)>> \o Insert(a, Tail(sorted))

\* the stable sort by Compare
RECURSIVE SortDesc(_)
SortDesc(list) ==
    IF list = <<>> THEN <<>>
    ELSE Insert(list[Len(list)], SortDesc(SubSeq(list, 1, Len(list) - 1)))

Orderings(list) ==
    LET n == Len(list)
        Bijections == {f \in [1..n -> 1..n] : \A i, j \in 1..n : f[i] = f[j] => i = j}
    IN  {[i \in 1..n |-> list[f[i]]] : f \in Bijections}

\* Array.prototype.sort: with a consistent comparator the sorted list; with a
\* NaN among the scores the comparator is not consistent and the order is
\* implementation-defined
SortOutcomes(list) ==
    IF \E i \in 1..Len(list) : list[i] = NaN THEN Orderings(list)
    ELSE {SortDesc(list)}

\* slice(0, 3)
Slice(sorted) == SubSeq(sorted, 1, Min(Len(sorted), TopN))

\* step 4: findEdge has returned for every cluster
FoundEdge ==
    /\ pc = "idle"
    /\ \E n \in 0..MaxOpportunities : \E all \in [1..n -> EdgeValues] :
          allOpportunities' = all
    /\ topOpportunities' = <<>>
    /\ evaluated' = <<>>
    /\ pc' = "scored"
    /\ UNCHANGED <<attributionVars, retryVars, vaultVars, cacheVars, exitVars, checkVars, sizeVars, edgeVars, clusterVars, mentionVars, enrichVars, ingestVars, tradeVars, bookVars, loopVars>>

\* allOpportunities.sort(...).slice(0, 3)
RankAll ==
    /\ pc = "scored"
    /\ \E sorted \in SortOutcomes(allOpportunities) :
          topOpportunities' = Slice(sorted)
    /\ pc' = "ranked"
    /\ UNCHANGED <<attributionVars, retryVars, vaultVars, cacheVars, exitVars, checkVars, sizeVars, edgeVars, clusterVars, mentionVars, enrichVars, ingestVars, tradeVars, bookVars, loopVars, allOpportunities, evaluated>>

\* for (const opp of topOpportunities): evaluate(opp, portfolio)
EvaluateNext ==
    /\ pc = "ranked"
    /\ topOpportunities # <<>>
    /\ evaluated' = Append(evaluated, Head(topOpportunities))
    /\ topOpportunities' = Tail(topOpportunities)
    /\ UNCHANGED <<attributionVars, retryVars, vaultVars, cacheVars, exitVars, checkVars, sizeVars, edgeVars, clusterVars, mentionVars, enrichVars, pc, ingestVars, tradeVars, bookVars, loopVars, allOpportunities>>

\* the loop is over
RankEnd ==
    /\ pc = "ranked"
    /\ topOpportunities = <<>>
    /\ pc' = "idle"
    /\ UNCHANGED <<attributionVars, retryVars, vaultVars, cacheVars, exitVars, checkVars, sizeVars, edgeVars, clusterVars, mentionVars, enrichVars, ingestVars, tradeVars, bookVars, loopVars, rankVars>>

NextRank ==
    \/ FoundEdge
    \/ RankAll
    \/ EvaluateNext
    \/ RankEnd

SpecRank == Init /\ [][NextRank]_vars

(***************************************************************************)
(* The book over time: the execution collaborator closes positions (stop   *)
(* loss, take profit, resolution) and closeTrade, which no step of the     *)
(* campaign calls, closes the row of the trades table.                     *)
(***************************************************************************)
PositionOf(r) == [market_id |-> r.market_id, size |-> r.size]

RowsOf(table, b) == FilterBag(table, LAMBDA r : PositionOf(r) = b)

\* the collaborator closes a position the ledger shows as open
PositionClosed ==
    /\ \E r \in DOMAIN openTrades :
        /\ BagCardinality(RowsOf(openTrades, PositionOf(r)))
             > BagCardinality(RowsOf(closedAtVenue, PositionOf(r)))
        /\ closedAtVenue' = closedAtVenue (+) SetToBag({PositionOf(r)})
    /\ UNCHANGED <<attributionVars, retryVars, vaultVars, cacheVars, exitVars, checkVars, sizeVars, edgeVars, clusterVars, mentionVars, enrichVars, pc, ingestVars, tradeVars, realizedPnl, loopVars, rankVars>>

\* closeTrade(tradeId, exitPrice, pnl) on the row of a position the
\* collaborator closed, at a total loss or with the stake won
CloseTrade ==
    /\ \E r \in DOMAIN openTrades, won \in BOOLEAN :
        /\ PositionOf(r) \in DOMAIN closedAtVenue
        /\ openTrades' = openTrades (-) SetToBag({r})
        /\ closedAtVenue' = closedAtVenue (-) SetToBag({PositionOf(r)})
        /\ realizedPnl' = realizedPnl + (IF won THEN r.size ELSE 0 - r.size)
    /\ UNCHANGED <<attributionVars, retryVars, vaultVars, cacheVars, exitVars, checkVars, sizeVars, edgeVars, clusterVars, mentionVars, enrichVars, exitRules, pc, ingestVars, portfolio, remaining, answer, order, result,
                   written, attributed, posted, bets, loopVars, rankVars>>

EvaluateHot ==
    /\ BagCardinality(bets) < MaxBets
    /\ EvaluateOn(OneMarket, {90}, {5}, {"TRADE"})

PlaceBetAccepted == PlaceBetOn({"accepted"})

NextLedger ==
    \/ Ingested
    \/ Rank
    \/ EvaluateHot
    \/ PlaceBetAccepted
    \/ RecordBet
    \/ SetExitRules
    \/ TickEnd
    \/ PositionClosed
    \/ CloseTrade

SpecLedger == Init /\ [][NextLedger]_vars

(***************************************************************************)
(* enrichBatch: filter, then enrich in chunks.                             *)
(***************************************************************************)
MinAccountAgeDays == 30
MinFollowers == 50
ChunkSize == 5
MaxBatch == 7

\* the authors a mention can have: established, too young, too few followers
Users ==
    {[accountAgeDays |-> MinAccountAgeDays, followers |-> MinFollowers],
     [accountAgeDays |-> MinAccountAgeDays - 1, followers |-> MinFollowers],
     [accountAgeDays |-> MinAccountAgeDays, followers |-> MinFollowers - 1]}

PassesFilter(user) ==
    ~(user.accountAgeDays < MinAccountAgeDays) /\ ~(user.followers < MinFollowers)

\* the positions lo..hi of list that hold an author passing the filter, in order
RECURSIVE Kept(_, _, _)
Kept(list, lo, hi) ==
    IF lo > hi THEN <<>>
    ELSE (IF PassesFilter(list[lo]) THEN <<lo>> ELSE <<>>) \o Kept(list, lo + 1, hi)

\* filterMentions letting every mention through
filterMentionsNone(list) == [k \in 1..Len(list) |-> k]

filterMentions(list) == Kept(list, 1, Len(list))

\* the rest of the list as one chunk
ChunkToEnd(list, i) == {list[k] : k \in (i + 1)..Len(list)}

\* filtered.slice(i, i + chunkSize), as the set of its members
Chunk(list, i) == {list[k] : k \in (i + 1)..Min(i + ChunkSize, Len(list))}

\* tick() calls enrichBatch(allowed)
EnrichBatchCalled ==
    /\ pc = "idle"
    /\ \E n \in 0..MaxBatch : \E ms \in [1..n -> Users] :
        /\ batchMentions' = ms
        /\ filtered' = filterMentions(ms)
    /\ chunkStart' = 0
    /\ started' = {}
    /\ completed' = {}
    /\ pc' = "chunking"
    /\ UNCHANGED <<attributionVars, retryVars, vaultVars, cacheVars, exitVars, checkVars, sizeVars, edgeVars, clusterVars, mentionVars, ingestVars, tradeVars, bookVars, loopVars, rankVars>>

\* chunk.map((m) => this.enrichMention(m)): every call of the chunk runs up to
\* its request to the classifier
StartChunk ==
    /\ pc = "chunking"
    /\ chunkStart < Len(filtered)
    /\ started' = started \cup Chunk(filtered, chunkStart)
    /\ pc' = "awaiting"
    /\ UNCHANGED <<attributionVars, retryVars, vaultVars, cacheVars, exitVars, checkVars, sizeVars, edgeVars, clusterVars, mentionVars, ingestVars, tradeVars, bookVars, loopVars, rankVars,
                   batchMentions, filtered, chunkStart, completed>>

\* one enrichMention call returns (a signal or null; it never rejects)
EnrichMentionReturns ==
    /\ pc = "awaiting"
    /\ \E m \in started \ completed : completed' = completed \cup {m}
    /\ UNCHANGED <<attributionVars, retryVars, vaultVars, cacheVars, exitVars, checkVars, sizeVars, edgeVars, clusterVars, mentionVars, pc, ingestVars, tradeVars, bookVars, loopVars, rankVars,
                   batchMentions, filtered, chunkStart, started>>

\* Promise.all resolves once every call of the chunk has returned; i += chunkSize
ChunkDone ==
    /\ pc = "awaiting"
    /\ started \subseteq completed
    /\ chunkStart' = chunkStart + ChunkSize
    /\ pc' = "chunking"
    /\ UNCHANGED <<attributionVars, retryVars, vaultVars, cacheVars, exitVars, checkVars, sizeVars, edgeVars, clusterVars, mentionVars, ingestVars, tradeVars, bookVars, loopVars, rankVars,
                   batchMentions, filtered, started, completed>>

\* return results
EnrichBatchReturns ==
    /\ pc = "chunking"
    /\ ~(chunkStart < Len(filtered))
    /\ batchMentions' = <<>>
    /\ filtered' = <<>>
    /\ chunkStart' = 0
    /\ started' = {}
    /\ completed' = {}
    /\ pc' = "idle"
    /\ UNCHANGED <<attributionVars, retryVars, vaultVars, cacheVars, exitVars, checkVars, sizeVars, edgeVars, clusterVars, mentionVars, ingestVars, tradeVars, bookVars, loopVars, rankVars>>

NextEnrich ==
    \/ EnrichBatchCalled
    \/ StartChunk
    \/ EnrichMentionReturns
    \/ ChunkDone
    \/ EnrichBatchReturns

SpecEnrich == Init /\ [][NextEnrich]_vars

(***************************************************************************)
(* enrichMention: classify, drop noise, weigh by the best engagement.      *)
(* Weights are in quarters.                                                *)
(***************************************************************************)
Engagements ==
    {[likes |-> 0, retweets |-> 0, quoteTweets |-> 0],
     [likes |-> 1, retweets |-> 1, quoteTweets |-> 0],
     [likes |-> 0, retweets |-> 0, quoteTweets |-> 2]}

MaxContext == 2

\* conversationContext, root first and closest parent last
Contexts == UNION {[1..n -> Engagements] : n \in 0..MaxContext}

\* what the classifier call can do: answer a JSON object, answer JSON null,
\* answer text that is not JSON (or no text block), or fail
Classifications ==
    [kind : {"object"}, is_noise : {"true", "false", "undefined"},
     signal_type : {"news", "noise", "undefined"}]
        \cup [kind : {"null", "unparseable", "error"}, is_noise : {"undefined"},
              signal_type : {"undefined"}]

\* the integer part of log2(n), n >= 1
RECURSIVE Log2Floor(_)
Log2Floor(n) == IF n < 2 THEN 0 ELSE 1 + Log2Floor(n \div 2)

\* 1 + Math.log2(1 + raw), in quarters, to the quarter below
engagementWeight(engagement) ==
    LET raw == engagement.likes + 2 * engagement.retweets + 3 * engagement.quoteTweets
    IN  4 + Log2Floor((1 + raw) * (1 + raw) * (1 + raw) * (1 + raw))

\* the root of the conversation in place of the closest parent
RootEngagement(context) ==
    IF Len(context) > 0 THEN <<context[1]>> ELSE <<>>

\* conversationContext[length - 1].engagement: a list that is empty for
\* undefined
parentEngagement(context) ==
    IF Len(context) > 0 THEN <<context[Len(context)]>> ELSE <<>>

\* [own, parent, quoted].filter(Boolean); quotedTweet is a list that is empty
\* when the mention quotes nothing
engagementSources(m) ==
    <<m.engagement>> \o parentEngagement(m.conversationContext) \o m.quotedTweet

Score(e) == e.likes + 2 * e.retweets + 3 * e.quoteTweets

\* reduce((best, e) => score > bestScore ? e : best)
RECURSIVE Reduce(_, _)
Reduce(best, rest) ==
    IF rest = <<>> THEN best
    ELSE Reduce(IF Score(Head(rest)) > Score(best) THEN Head(rest) ELSE best, Tail(rest))

bestEngagement(m) ==
    LET sources == engagementSources(m) IN Reduce(Head(sources), Tail(sources))

\* safeParseLLMJson(text, {is_noise: true, signal_type: "noise"})
parseClassification(c) ==
    IF c.kind = "unparseable"
    THEN [kind |-> "object", is_noise |-> "true", signal_type |-> "noise"] ELSE c

\* a truthy is_noise or signal_type === "noise"
FlaggedNoise(parsed) == parsed.is_noise = "true" \/ parsed.signal_type = "noise"

\* the catch returns null: for a failed call, and for JSON null, whose
\* is_noise cannot be read
enrichMention(m, c) ==
    IF c.kind \in {"error", "null"} THEN Null
    ELSE LET parsed == parseClassification(c)
         IN  IF FlaggedNoise(parsed) THEN Null
             ELSE [kind |-> "signal", signalType |-> parsed.signal_type,
                   weight |-> engagementWeight(bestEngagement(m))]

EnrichMentionCalled ==
    /\ pc = "idle"
    /\ \E e \in Engagements, ctx \in Contexts, q \in {<<>>} \cup {<<x>> : x \in Engagements} :
          mention' = [engagement |-> e, conversationContext |-> ctx, quotedTweet |-> q]
    /\ classification' = NoClassification
    /\ enrichedSignal' = NoSignal
    /\ pc' = "classifying"
    /\ UNCHANGED <<attributionVars, retryVars, vaultVars, cacheVars, exitVars, checkVars, sizeVars, edgeVars, clusterVars, ingestVars, tradeVars, bookVars, loopVars, rankVars, enrichVars>>

\* messages.create settles and enrichMention runs to its return
Classified ==
    /\ pc = "classifying"
    /\ \E c \in Classifications :
        /\ classification' = c
        /\ enrichedSignal' = enrichMention(mention, c)
    /\ pc' = "classified"
    /\ UNCHANGED <<attributionVars, retryVars, vaultVars, cacheVars, exitVars, checkVars, sizeVars, edgeVars, clusterVars, ingestVars, tradeVars, bookVars, loopVars, rankVars, enrichVars, mention>>

\* the caller has the result
MentionDone ==
    /\ pc = "classified"
    /\ mention' = NoMention
    /\ classification' = NoClassification
    /\ enrichedSignal' = NoSignal
    /\ pc' = "idle"
    /\ UNCHANGED <<attributionVars, retryVars, vaultVars, cacheVars, exitVars, checkVars, sizeVars, edgeVars, clusterVars, ingestVars, tradeVars, bookVars, loopVars, rankVars, enrichVars>>

NextMention ==
    \/ EnrichMentionCalled
    \/ Classified
    \/ MentionDone

SpecMention == Init /\ [][NextMention]_vars

(***************************************************************************)
(* clusterSignals: ask the grouping collaborator, resolve its indices.     *)
(***************************************************************************)
MaxSignals == 3
MaxClusters == 2
MaxIndices == 2

\* the signal_indices the collaborator can answer for n signals: any list of
\* integers, below, inside and above 0..n-1
IndexLists(n) == UNION {[1..k -> (-1)..n] : k \in 0..MaxIndices}

Groupings(n) == UNION {[1..k -> IndexLists(n)] : k \in 0..MaxClusters}

\* (c.signal_indices || []).filter((i) => i < signals.length)
Resolvable(indices, n) == SelectSeq(indices, LAMBDA i : i < n)

\* signals[i] of a negative i is undefined, and reading its raw throws
clusterThrows(groups, n) ==
    \E c \in 1..Len(groups) : \E k \in 1..Len(groups[c]) : groups[c][k] < 0

\* parsed.clusters.map(...): one cluster per answered cluster
clusterOf(indices, n) ==
    LET clusterSignals == Resolvable(indices, n)
    IN  [signals |-> clusterSignals, signalCount |-> Len(clusterSignals)]

\* if (signals.length < 2) return []: the collaborator is not asked
ClusterSignalsCalled ==
    /\ pc = "idle"
    /\ \E n \in 0..MaxSignals :
        /\ recentSignals' = n
        /\ pc' = IF n < 2 THEN "grouped" ELSE "grouping"
    /\ grouping' = <<>>
    /\ clusters' = <<>>
    /\ UNCHANGED <<attributionVars, retryVars, vaultVars, cacheVars, exitVars, checkVars, sizeVars, edgeVars, ingestVars, tradeVars, bookVars, loopVars, rankVars, enrichVars, mentionVars>>

\* the collaborator has answered and the answer is parsed
Grouped ==
    /\ pc = "grouping"
    /\ \E groups \in Groupings(recentSignals) :
        /\ grouping' = groups
        /\ IF clusterThrows(groups, recentSignals)
           THEN /\ clusters' = <<>>
                /\ pc' = "threw"
           ELSE /\ clusters' = [c \in 1..Len(groups) |-> clusterOf(groups[c], recentSignals)]
                /\ pc' = "grouped"
    /\ UNCHANGED <<attributionVars, retryVars, vaultVars, cacheVars, exitVars, checkVars, sizeVars, edgeVars, ingestVars, tradeVars, bookVars, loopVars, rankVars, enrichVars, mentionVars,
                   recentSignals>>

\* tick() has the clusters
ClustersTaken ==
    /\ pc = "grouped"
    /\ recentSignals' = 0
    /\ grouping' = <<>>
    /\ clusters' = <<>>
    /\ pc' = "idle"
    /\ UNCHANGED <<attributionVars, retryVars, vaultVars, cacheVars, exitVars, checkVars, sizeVars, edgeVars, ingestVars, tradeVars, bookVars, loopVars, rankVars, enrichVars, mentionVars>>

NextCluster ==
    \/ ClusterSignalsCalled
    \/ Grouped
    \/ ClustersTaken
    \/ TickFail

SpecCluster == Init /\ [][NextCluster]_vars

(***************************************************************************)
(* findEdge: map a cluster to markets and score the edge.  Prices and      *)
(* probabilities are in hundredths, the signal strength in basis points,   *)
(* the time value in tenths, the edge score is their product.              *)
(***************************************************************************)
MaxEdgeClusters == 2
MaxMappings == 1

\* topMarkets: outcomePrices of each market, [yes, no]
topMarkets == <<<<0, 100>>, <<30, 70>>>>

\* clusterWeight, and the urgencies of the cluster's signals
Clusters == [clusterWeight : {10, 40}, urgency : {{"breaking", "slow"}, {"developing", "slow"}, {"slow"}}]

\* a mapping of the answer; market_index counts from 0
Mappings == [market_index : 0..Len(topMarkets), direction : {"YES", "NO"},
             signal_implied_probability : {20, 80}]

\* what the mapping collaborator can answer: an object with mappings, JSON
\* null, or text that is not JSON
MappingAnswers ==
    [kind : {"object"}, mappings : UNION {[1..k -> Mappings] : k \in 0..MaxMappings}]
        \cup [kind : {"null", "malformed"}, mappings : {<<>>}]

\* JSON.parse(text) and parsed.mappings are outside any try
findEdgeThrows(a) == a.kind \in {"null", "malformed"}

\* x || 0.5
OrHalf(x) == IF x = 0 THEN 50 ELSE x

Abs(x) == IF x < 0 THEN -x ELSE x

\* Math.min(1.0, clusterWeight / 20)
signalStrength(clusterWeight) == Min(10000, (clusterWeight * 10000) \div 20)

timeValue(c) ==
    IF "breaking" \in c.urgency THEN 10
    ELSE IF "developing" \in c.urgency THEN 7
    ELSE 4

\* the opportunity of a mapping whose market exists
opportunityOf(c, mapping) ==
    LET market == topMarkets[mapping.market_index + 1]
        currentPrice == IF mapping.direction = "YES"
                        THEN OrHalf(market[1]) ELSE OrHalf(market[2])
        priceDiscrepancy == Abs(mapping.signal_implied_probability - currentPrice)
    IN  [market |-> mapping.market_index, direction |-> mapping.direction,
         signalImpliedProbability |-> mapping.signal_implied_probability,
         currentMarketPrice |-> currentPrice,
         priceDiscrepancy |-> priceDiscrepancy,
         edgeScore |-> signalStrength(c.clusterWeight) * priceDiscrepancy * timeValue(c)]

\* const market = topMarkets[mapping.market_index]; truthy
HasMarket(mapping) == (mapping.market_index + 1) \in DOMAIN topMarkets

RECURSIVE InsertByEdge(_, _)
InsertByEdge(o, sorted) ==
    IF sorted = <<>> THEN <<o>>
    ELSE IF Head(sorted).edgeScore < o.edgeScore THEN <<o>> \o sorted
    ELSE <<Head(sorted)>> \o InsertByEdge(o, Tail(sorted))

\* sort((a, b) => b.edgeScore - a.edgeScore), stable
RECURSIVE SortByEdge(_)
SortByEdge(list) ==
    IF list = <<>> THEN <<>>
    ELSE InsertByEdge(list[Len(list)], SortByEdge(SubSeq(list, 1, Len(list) - 1)))

\* the loop over parsed.mappings, then the sort
findEdge(c, a) ==
    LET kept == SelectSeq(a.mappings, HasMarket)
    IN  SortByEdge([k \in 1..Len(kept) |-> opportunityOf(c, kept[k])])

\* step 4 begins: for (const cluster of clusters)
EdgeLoopStarts ==
    /\ pc = "idle"
    /\ \E n \in 0..MaxEdgeClusters : clustersLeft' = n
    /\ cluster' = NoCluster
    /\ mappingAnswer' = NoAnswer
    /\ opportunities' = <<>>
    /\ pc' = "edges"
    /\ UNCHANGED <<attributionVars, retryVars, vaultVars, cacheVars, exitVars, checkVars, sizeVars, ingestVars, tradeVars, bookVars, loopVars, rankVars, enrichVars, mentionVars,
                   clusterVars>>

\* findEdge(cluster, weight) up to its request to the mapping collaborator
FindEdgeCalled ==
    /\ pc = "edges"
    /\ clustersLeft > 0
    /\ \E c \in Clusters : cluster' = c
    /\ clustersLeft' = clustersLeft - 1
    /\ mappingAnswer' = NoAnswer
    /\ opportunities' = <<>>
    /\ pc' = "mapping"
    /\ UNCHANGED <<attributionVars, retryVars, vaultVars, cacheVars, exitVars, checkVars, sizeVars, ingestVars, tradeVars, bookVars, loopVars, rankVars, enrichVars, mentionVars,
                   clusterVars>>

\* the collaborator has answered: findEdge returns its opportunities to the
\* loop, or throws out of tick()
FindEdgeSettles ==
    /\ pc = "mapping"
    /\ \E a \in MappingAnswers :
        /\ mappingAnswer' = a
        /\ IF findEdgeThrows(a)
           THEN /\ opportunities' = <<>>
                /\ pc' = "threw"
           ELSE /\ opportunities' = findEdge(cluster, a)
                /\ pc' = "edges"
    /\ UNCHANGED <<attributionVars, retryVars, vaultVars, cacheVars, exitVars, checkVars, sizeVars, ingestVars, tradeVars, bookVars, loopVars, rankVars, enrichVars, mentionVars,
                   clusterVars, clustersLeft, cluster>>

\* the loop is over
EdgeLoopEnds ==
    /\ pc = "edges"
    /\ clustersLeft = 0
    /\ cluster' = NoCluster
    /\ mappingAnswer' = NoAnswer
    /\ opportunities' = <<>>
    /\ pc' = "idle"
    /\ UNCHANGED <<attributionVars, retryVars, vaultVars, cacheVars, exitVars, checkVars, sizeVars, ingestVars, tradeVars, bookVars, loopVars, rankVars, enrichVars, mentionVars,
                   clusterVars, clustersLeft>>

NextEdge ==
    \/ EdgeLoopStarts
    \/ FindEdgeCalled
    \/ FindEdgeSettles
    \/ EdgeLoopEnds
    \/ TickFail

SpecEdge == Init /\ [][NextEdge]_vars

(***************************************************************************)
(* calculatePositionSize over bankrolls, cash levels and caps other than   *)
(* the campaign's.                                                         *)
(***************************************************************************)
\* edge scores on both sides of the conviction thresholds, and on them
SizingEdges == {40, ModerateConviction, 60, HighConviction, 85}

\* bankrolls in cents: 1,000 / 2,002 / 10,000 dollars
SizingBankrolls == {100000, 200200, 1000000}

\* cash in cents
SizingCash == {40000, 45000, 47100, 100000, 1000000}

SizingCaps == {300, MaxPositionPct}

SizeCalled ==
    /\ pc = "idle"
    /\ \E e \in SizingEdges, b \in SizingBankrolls, c \in SizingCash, cap \in SizingCaps :
        /\ sizing' = [edgeScore |-> e, bankroll |-> b, cashAvailable |-> c,
                      maxPositionPct |-> cap]
        /\ positionSize' = calculatePositionSize([edgeScore |-> e],
                                          [bankroll |-> b, cashAvailable |-> c],
                                          [config EXCEPT !.maxPositionPct = cap])
    /\ pc' = "sized"
    /\ UNCHANGED <<attributionVars, retryVars, vaultVars, cacheVars, exitVars, checkVars, ingestVars, tradeVars, bookVars, loopVars, rankVars, enrichVars, mentionVars,
                   clusterVars, edgeVars>>

\* the caller has the size
SizeTaken ==
    /\ pc = "sized"
    /\ sizing' = NoSizing
    /\ positionSize' = 0
    /\ pc' = "idle"
    /\ UNCHANGED <<attributionVars, retryVars, vaultVars, cacheVars, exitVars, checkVars, ingestVars, tradeVars, bookVars, loopVars, rankVars, enrichVars, mentionVars,
                   clusterVars, edgeVars>>

NextSize ==
    \/ SizeCalled
    \/ SizeTaken

SpecSize == Init /\ [][NextSize]_vars

(***************************************************************************)
(* checkPortfolioConstraints over portfolios of one open position.         *)
(***************************************************************************)
\* sizes of the open position in cents: below, on and above the theme cap of
\* the bankrolls below
ConstraintSizes == {5000, 15000, 30000, 40000}

\* portfolio bankrolls in cents: on the drawdown level, the campaign's and above
ConstraintBankrolls == {100000, 200000, 400000}

\* a portfolio whose only open position is size on market m
OnePosition(m, size, bankroll) ==
    [bankroll |-> bankroll, cashAvailable |-> bankroll - size,
     positions |-> SetToBag({saveTrade([market |-> m, decision |-> "TRADE", size |-> size],
                                       "tx")}),
     totalPnl |-> 0]

CheckCalled ==
    /\ pc = "idle"
    /\ \E e \in EdgeScores, m \in {"m1", "m2", "m3"}, size \in ConstraintSizes,
          b \in ConstraintBankrolls :
        /\ constraintInput' = [edgeScore |-> e, market |-> m, size |-> size, bankroll |-> b]
        /\ constraintResult' = checkPortfolioConstraints(
                                  [market |-> "m1", edgeScore |-> e, signalCount |-> 5],
                                  OnePosition(m, size, b), config)
    /\ pc' = "checked"
    /\ UNCHANGED <<attributionVars, retryVars, vaultVars, cacheVars, exitVars, ingestVars, tradeVars, bookVars, loopVars, rankVars, enrichVars, mentionVars,
                   clusterVars, edgeVars, sizeVars>>

\* the caller has the answer
CheckTaken ==
    /\ pc = "checked"
    /\ constraintInput' = NoConstraintInput
    /\ constraintResult' = NoCheck
    /\ pc' = "idle"
    /\ UNCHANGED <<attributionVars, retryVars, vaultVars, cacheVars, exitVars, ingestVars, tradeVars, bookVars, loopVars, rankVars, enrichVars, mentionVars,
                   clusterVars, edgeVars, sizeVars>>

NextConstraint ==
    \/ CheckCalled
    \/ CheckTaken

SpecConstraint == Init /\ [][NextConstraint]_vars

(***************************************************************************)
(* calculateExitLevels.  An entry price and stopLossPercent are in basis   *)
(* points, takeProfitMultiple in hundredths; an exit price is the exact    *)
(* fraction num / den.                                                     *)
(***************************************************************************)
\* the clamps 0.01 and 0.99, in hundredths
PriceFloor == 1
PriceCeiling == 99

\* calculateExitLevels without Math.min and Math.max
calculateExitLevelsUnclamped(entryPrice, direction, cfg) ==
    IF direction = "YES"
    THEN [stopLoss   |-> [num |-> entryPrice * (10000 - cfg.stopLossPercent),
                          den |-> 100000000],
          takeProfit |-> [num |-> entryPrice * cfg.takeProfitMultiple,
                          den |-> 1000000]]
    ELSE [stopLoss   |-> [num |-> entryPrice * (10000 + cfg.stopLossPercent),
                          den |-> 100000000],
          takeProfit |-> [num |-> entryPrice,
                          den |-> 100 * cfg.takeProfitMultiple]]

calculateExitLevels(entryPrice, direction, cfg) ==
    IF direction = "YES"
    THEN [stopLoss   |-> [num |-> Max(PriceFloor * 1000000,
                                      entryPrice * (10000 - cfg.stopLossPercent)),
                          den |-> 100000000],
          takeProfit |-> [num |-> Min(PriceCeiling * 10000,
                                      entryPrice * cfg.takeProfitMultiple),
                          den |-> 1000000]]
    ELSE [stopLoss   |-> [num |-> Min(PriceCeiling * 1000000,
                                      entryPrice * (10000 + cfg.stopLossPercent)),
                          den |-> 100000000],
          \* entryPrice / takeProfitMultiple against 0.01, both over
          \* 100 x takeProfitMultiple
          takeProfit |-> [num |-> Max(PriceFloor * cfg.takeProfitMultiple, entryPrice),
                          den |-> 100 * cfg.takeProfitMultiple]]

\* entry prices in basis points, from 0.0001 to 0.9999
EntryPrices == {1, 50, 100, 101, 5000, 9900, 9999}

\* the values validateConfig accepts: 0 < stopLossPercent <= 1
StopLossPercents == {1, 4000, 9900, 10000}

\* the values validateConfig accepts: takeProfitMultiple > 1
TakeProfitMultiples == {101, 200, 10000, 100000}

ExitLevelsCalled ==
    /\ pc = "idle"
    /\ \E e \in EntryPrices, d \in {"YES", "NO"}, sl \in StopLossPercents,
          tp \in TakeProfitMultiples :
        /\ exitInput' = [entryPrice |-> e, direction |-> d, stopLossPercent |-> sl,
                         takeProfitMultiple |-> tp]
        /\ exitLevels' = calculateExitLevels(e, d, [stopLossPercent |-> sl,
                                                    takeProfitMultiple |-> tp])
    /\ pc' = "exits"
    /\ UNCHANGED <<attributionVars, retryVars, vaultVars, cacheVars, ingestVars, tradeVars, bookVars, loopVars, rankVars, enrichVars, mentionVars,
                   clusterVars, edgeVars, sizeVars, checkVars>>

\* the caller has the exit levels
ExitLevelsTaken ==
    /\ pc = "exits"
    /\ exitInput' = NoExitInput
    /\ exitLevels' = NoExitLevels
    /\ pc' = "idle"
    /\ UNCHANGED <<attributionVars, retryVars, vaultVars, cacheVars, ingestVars, tradeVars, bookVars, loopVars, rankVars, enrichVars, mentionVars,
                   clusterVars, edgeVars, sizeVars, checkVars>>

NextExit ==
    \/ ExitLevelsCalled
    \/ ExitLevelsTaken

SpecExit == Init /\ [][NextExit]_vars

(***************************************************************************)
(* EdgeScorer.getMarkets: the cached instrument catalog.  Time is in       *)
(* minutes.                                                                *)
(***************************************************************************)
\* what fetchActiveMarkets answers: a list, as its length, or an HTTP error
FetchOutcomes == {"markets", "empty", "error"}

\* the cache is refreshed when it is older than the interval, or empty
Stale(t) == t - lastCacheTime > cacheIntervalMs \/ marketCache = 0

\* time passes
ClockAdvances ==
    /\ clock + 5 <= MaxClock
    /\ clock' = clock + 5
    /\ UNCHANGED <<attributionVars, retryVars, vaultVars, ingestVars, tradeVars, bookVars, loopVars, rankVars, enrichVars, mentionVars,
                   clusterVars, edgeVars, sizeVars, checkVars, exitVars,
                   pc, lastCacheTime, marketCache, now, fetchLog>>

\* getMarkets with a fresh cache: returns the cache
GetMarketsCached ==
    /\ pc = "idle"
    /\ ~Stale(clock)
    /\ now' = clock
    /\ UNCHANGED <<attributionVars, retryVars, vaultVars, ingestVars, tradeVars, bookVars, loopVars, rankVars, enrichVars, mentionVars,
                   clusterVars, edgeVars, sizeVars, checkVars, exitVars,
                   pc, clock, lastCacheTime, marketCache, fetchLog>>

\* getMarkets up to the await of fetchActiveMarkets(200)
GetMarketsFetches ==
    /\ pc = "idle"
    /\ Stale(clock)
    /\ Len(fetchLog) < MaxFetches
    /\ now' = clock
    /\ fetchLog' = Append(fetchLog, clock)
    /\ pc' = "fetching"
    /\ UNCHANGED <<attributionVars, retryVars, vaultVars, ingestVars, tradeVars, bookVars, loopVars, rankVars, enrichVars, mentionVars,
                   clusterVars, edgeVars, sizeVars, checkVars, exitVars,
                   clock, lastCacheTime, marketCache>>

\* fetchActiveMarkets settles: an error leaves getMarkets before the
\* assignments
FetchSettles ==
    /\ pc = "fetching"
    /\ \E outcome \in FetchOutcomes :
        /\ marketCache' = CASE outcome = "markets" -> 2
                             [] outcome = "empty"   -> 0
                             [] OTHER               -> marketCache
        /\ lastCacheTime' = IF outcome = "error" THEN lastCacheTime ELSE now
    /\ pc' = "idle"
    /\ UNCHANGED <<attributionVars, retryVars, vaultVars, ingestVars, tradeVars, bookVars, loopVars, rankVars, enrichVars, mentionVars,
                   clusterVars, edgeVars, sizeVars, checkVars, exitVars,
                   clock, now, fetchLog>>

NextCache ==
    \/ ClockAdvances
    \/ GetMarketsCached
    \/ GetMarketsFetches
    \/ FetchSettles

SpecCache == Init /\ [][NextCache]_vars

(***************************************************************************)
(* VincentVault: an ERC-4626 vault whose total assets are reported by the  *)
(* accountant.  Amounts are in units of the asset; a transaction that      *)
(* reverts changes nothing but the record of the call.                     *)
(***************************************************************************)
MaxVaultAssets == 2
MaxShares == 3

Addresses == {"owner", "manager", "accountant", "alice", "bob"}
VaultAmounts == 0..(MaxVaultAssets + 1)

CeilDiv(a, b) == (a + b - 1) \div b

totalSupply == shares["alice"] + shares["bob"]

availableAssets == assetBalance

totalAssets == reportedTotalAssets

\* ERC4626._convertToShares and _convertToAssets, rounding down
convertToShares(assets) == (assets * (totalSupply + 1)) \div (totalAssets + 1)
convertToAssets(sh) == (sh * (totalAssets + 1)) \div (totalSupply + 1)

\* ERC4626.previewMint and previewWithdraw, rounding up
previewMint(sh) == CeilDiv(sh * (totalAssets + 1), totalSupply + 1)
previewWithdraw(assets) == CeilDiv(assets * (totalSupply + 1), totalAssets + 1)

\* maxWithdraw without the cap by on-chain liquidity
maxWithdrawByShares(owner) == convertToAssets(shares[owner])

maxWithdraw(owner) ==
    LET byShares == convertToAssets(shares[owner])
        available == availableAssets
    IN  IF byShares < available THEN byShares ELSE available

maxRedeem(owner) ==
    LET byShares == shares[owner]
        availableShareValue == convertToShares(availableAssets)
    IN  IF byShares < availableShareValue THEN byShares ELSE availableShareValue

Call(op, caller, amount, reverted) ==
    [op |-> op, caller |-> caller, amount |-> amount, reverted |-> reverted]

Reverts(op, caller, amount) ==
    /\ vaultCall' = Call(op, caller, amount, TRUE)
    /\ UNCHANGED <<attributionVars, retryVars, assetBalance, reportedTotalAssets, lastReportAt, shares, manager,
                   accountant, blockTime>>

\* _deposit: the assets enter the vault, the shares are minted, the reported
\* total grows
Deposited(receiver, assets, sh) ==
    /\ assetBalance' = assetBalance + assets
    /\ shares' = [shares EXCEPT ![receiver] = @ + sh]
    /\ reportedTotalAssets' = reportedTotalAssets + assets
    /\ UNCHANGED <<attributionVars, retryVars, lastReportAt, manager, accountant, blockTime>>

\* _withdraw: the shares are burnt, the assets leave the vault, the reported
\* total shrinks
Withdrawn(owner, assets, sh) ==
    /\ shares' = [shares EXCEPT ![owner] = @ - sh]
    /\ assetBalance' = assetBalance - assets
    /\ reportedTotalAssets' = reportedTotalAssets - assets
    /\ UNCHANGED <<attributionVars, retryVars, lastReportAt, manager, accountant, blockTime>>

\* _withdraw reverts: reported underflow, burn above the balance, transfer
\* above the vault's balance
WithdrawReverts(owner, assets, sh) ==
    \/ reportedTotalAssets < assets
    \/ shares[owner] < sh
    \/ assetBalance < assets

deposit(caller, assets) ==
    /\ reportedTotalAssets + assets <= MaxVaultAssets
    /\ assetBalance + assets <= MaxVaultAssets
    /\ totalSupply + convertToShares(assets) <= MaxShares
    /\ vaultCall' = Call("deposit", caller, assets, FALSE)
    /\ Deposited(caller, assets, convertToShares(assets))

mint(caller, sh) ==
    /\ reportedTotalAssets + previewMint(sh) <= MaxVaultAssets
    /\ assetBalance + previewMint(sh) <= MaxVaultAssets
    /\ totalSupply + sh <= MaxShares
    /\ vaultCall' = Call("mint", caller, sh, FALSE)
    /\ Deposited(caller, previewMint(sh), sh)

withdraw(caller, assets) ==
    LET sh == previewWithdraw(assets)
    IN  IF assets > maxWithdraw(caller) \/ WithdrawReverts(caller, assets, sh)
        THEN Reverts("withdraw", caller, assets)
        ELSE /\ vaultCall' = Call("withdraw", caller, assets, FALSE)
             /\ Withdrawn(caller, assets, sh)

redeem(caller, sh) ==
    LET assets == convertToAssets(sh)
    IN  IF sh > maxRedeem(caller) \/ WithdrawReverts(caller, assets, sh)
        THEN Reverts("redeem", caller, sh)
        ELSE /\ vaultCall' = Call("redeem", caller, sh, FALSE)
             /\ Withdrawn(caller, assets, sh)

\* reportAssets without the solvency requirement
reportAssetsAnyTotal(caller, totalAssets_) ==
    IF caller # accountant
    THEN Reverts("reportAssets", caller, totalAssets_)
    ELSE /\ vaultCall' = Call("reportAssets", caller, totalAssets_, FALSE)
         /\ reportedTotalAssets' = totalAssets_
         /\ lastReportAt' = blockTime
         /\ UNCHANGED <<assetBalance, shares, manager, accountant, blockTime>>

reportAssets(caller, totalAssets_) ==
    IF caller # accountant \/ totalAssets_ < availableAssets
    THEN Reverts("reportAssets", caller, totalAssets_)
    ELSE /\ vaultCall' = Call("reportAssets", caller, totalAssets_, FALSE)
         /\ reportedTotalAssets' = totalAssets_
         /\ lastReportAt' = blockTime
         /\ UNCHANGED <<assetBalance, shares, manager, accountant, blockTime>>

\* pullToManager that takes the pulled assets off the reported total
pullToManagerReported(caller, assets) ==
    IF caller # manager \/ assetBalance < assets
    THEN Reverts("pullToManager", caller, assets)
    ELSE /\ vaultCall' = Call("pullToManager", caller, assets, FALSE)
         /\ assetBalance' = assetBalance - assets
         /\ reportedTotalAssets' = IF reportedTotalAssets < assets THEN 0
                                   ELSE reportedTotalAssets - assets
         /\ UNCHANGED <<lastReportAt, shares, manager, accountant, blockTime>>

\* safeTransfer reverts above the vault's balance
pullToManager(caller, assets) ==
    IF caller # manager \/ assetBalance < assets
    THEN Reverts("pullToManager", caller, assets)
    ELSE /\ vaultCall' = Call("pullToManager", caller, assets, FALSE)
         /\ assetBalance' = assetBalance - assets
         /\ UNCHANGED <<reportedTotalAssets, lastReportAt, shares, manager, accountant,
                        blockTime>>

setManager(caller, newManager) ==
    IF caller # "owner"
    THEN Reverts("setManager", caller, 0)
    ELSE /\ vaultCall' = Call("setManager", caller, 0, FALSE)
         /\ manager' = newManager
         /\ UNCHANGED <<assetBalance, reportedTotalAssets, lastReportAt, shares, accountant,
                        blockTime>>

setAccountant(caller, newAccountant) ==
    IF caller # "owner"
    THEN Reverts("setAccountant", caller, 0)
    ELSE /\ vaultCall' = Call("setAccountant", caller, 0, FALSE)
         /\ accountant' = newAccountant
         /\ UNCHANGED <<assetBalance, reportedTotalAssets, lastReportAt, shares, manager,
                        blockTime>>

\* the asset's own transfer: tokens sent to the vault's address, profits
\* returned on chain
transfer(caller, assets) ==
    /\ assetBalance + assets <= MaxVaultAssets
    /\ vaultCall' = Call("transfer", caller, assets, FALSE)
    /\ assetBalance' = assetBalance + assets
    /\ UNCHANGED <<attributionVars, retryVars, reportedTotalAssets, lastReportAt, shares, manager, accountant, blockTime>>

\* the next block: two blocks tell a report's timestamp from the one before
Mined ==
    /\ blockTime = 1
    /\ blockTime' = 2
    /\ vaultCall' = NoCall
    /\ UNCHANGED <<attributionVars, retryVars, assetBalance, reportedTotalAssets, lastReportAt, shares, manager, accountant>>

OtherVars ==
    <<pc, ingestVars, tradeVars, bookVars, loopVars, rankVars, enrichVars, mentionVars,
      clusterVars, edgeVars, sizeVars, checkVars, exitVars, cacheVars, retryVars,
      attributionVars>>

NextVault ==
    \/ \E h \in Holders, a \in VaultAmounts \ {0} : deposit(h, a) /\ UNCHANGED OtherVars
    \/ \E h \in Holders, a \in VaultAmounts \ {0} : mint(h, a) /\ UNCHANGED OtherVars
    \/ \E h \in Holders, a \in VaultAmounts \ {0} : withdraw(h, a) /\ UNCHANGED OtherVars
    \/ \E h \in Holders, a \in VaultAmounts \ {0} : redeem(h, a) /\ UNCHANGED OtherVars
    \/ \E c \in {"accountant", "bob"}, x \in VaultAmounts :
           reportAssets(c, x) /\ UNCHANGED OtherVars
    \/ \E c \in {"manager", "bob"}, a \in VaultAmounts \ {0} :
           pullToManager(c, a) /\ UNCHANGED OtherVars
    \/ \E c \in {"owner", "manager"} : setManager(c, "bob") /\ UNCHANGED OtherVars
    \/ \E c \in {"owner", "accountant"} : setAccountant(c, "bob") /\ UNCHANGED OtherVars
    \/ \E a \in VaultAmounts \ {0} : transfer("manager", a) /\ UNCHANGED OtherVars
    \/ Mined /\ UNCHANGED OtherVars

SpecVault == Init /\ [][NextVault]_vars

(***************************************************************************)
(* withRetry(fn, label, opts), and placeBet's use of it around the POST    *)
(* of the bet.  An invocation of fn settles as                             *)
(*   "accepted"  resolved, the collaborator took the request               *)
(*   "rejected"  resolved with an HTTP failure the collaborator reported   *)
(*   "refused"   rejected, connection refused: the request went nowhere    *)
(*   "lost"      rejected, the response was lost, aborted or timed out     *)
(*               after the collaborator took the request                   *)
(*   "status"    rejected with a 429 or 5xx status                         *)
(*   "fatal"     rejected with any other error                             *)
(***************************************************************************)
MaxRetries == 3

\* { maxRetries: 2, baseDelayMs: 2000 }
PlaceBetRetries == 2

Resolved == {"accepted", "rejected"}
Rejected == {"refused", "lost", "status", "fatal"}

\* the collaborator has the request
Reached == {"accepted", "rejected", "lost"}

\* isRetryable that leaves out isTransientError
isRetryableStatus(err) == err = "status"

\* retryableStatuses includes the status code, or isTransientError
isRetryable(err) == err = "status" \/ err \in {"refused", "lost"}

\* the loop condition; the throw after the loop is not reached, the last
\* pass throws in the loop
MayAttempt(a, max) == a <= max

WithRetryCalled ==
    /\ pc = "idle"
    /\ \E call \in {<<"VincentAPI.placeBet()", PlaceBetRetries>>}
                     \cup {<<"other", m>> : m \in 0..MaxRetries} :
        /\ label' = call[1]
        /\ maxRetries' = call[2]
    /\ attempt' = 0
    /\ attemptLog' = <<>>
    /\ sleeps' = 0
    /\ placed' = 0
    /\ pc' = "retrying"
    /\ UNCHANGED <<attributionVars, ingestVars, tradeVars, bookVars, loopVars, rankVars, enrichVars, mentionVars,
                   clusterVars, edgeVars, sizeVars, checkVars, exitVars, cacheVars, vaultVars>>

\* one pass of the loop body up to the return, the throw or the sleep
FnSettles ==
    /\ pc = "retrying"
    /\ MayAttempt(attempt, maxRetries)
    /\ \E outcome \in Resolved \cup Rejected :
        /\ attemptLog' = Append(attemptLog, outcome)
        /\ placed' = IF outcome \in {"accepted", "lost"} THEN placed + 1 ELSE placed
        /\ pc' = IF outcome \in Resolved THEN "returned"
                  ELSE IF ~isRetryable(outcome) \/ attempt = maxRetries THEN "threw"
                  ELSE "sleeping"
        /\ sleeps' = IF outcome \in Rejected /\ isRetryable(outcome) /\ attempt # maxRetries
                      THEN sleeps + 1 ELSE sleeps
    /\ UNCHANGED <<attributionVars, ingestVars, tradeVars, bookVars, loopVars, rankVars, enrichVars, mentionVars,
                   clusterVars, edgeVars, sizeVars, checkVars, exitVars, cacheVars, vaultVars,
                   label, maxRetries, attempt>>

\* sleep(delayMs) resolves: attempt++
SleepEnds ==
    /\ pc = "sleeping"
    /\ attempt' = attempt + 1
    /\ pc' = "retrying"
    /\ UNCHANGED <<attributionVars, ingestVars, tradeVars, bookVars, loopVars, rankVars, enrichVars, mentionVars,
                   clusterVars, edgeVars, sizeVars, checkVars, exitVars, cacheVars, vaultVars,
                   label, maxRetries, attemptLog, sleeps, placed>>

\* the caller has the result or the error
WithRetrySettled ==
    /\ pc \in {"returned", "threw"}
    /\ label' = "none"
    /\ maxRetries' = 0
    /\ attempt' = 0
    /\ attemptLog' = <<>>
    /\ sleeps' = 0
    /\ placed' = 0
    /\ pc' = "idle"
    /\ UNCHANGED <<attributionVars, ingestVars, tradeVars, bookVars, loopVars, rankVars, enrichVars, mentionVars,
                   clusterVars, edgeVars, sizeVars, checkVars, exitVars, cacheVars, vaultVars>>

NextRetry ==
    \/ WithRetryCalled
    \/ FnSettles
    \/ SleepEnds
    \/ WithRetrySettled

(***************************************************************************)
(* The contributors table: attributeTradeToContributors and                *)
(* attributeProfitToContributors.  A signal is [user, timestamp]; the      *)
(* signals of one trade have different timestamps.                         *)
(***************************************************************************)
MaxContributing == 3
MaxExecuted == 2

\* the contributing signals an order can carry, in any order
SignalLists ==
    {list \in UNION {[1..k -> [user : Authors, timestamp : 1..MaxContributing]] :
                         k \in 1..MaxContributing} :
        \A i, j \in DOMAIN list : i # j => list[i].timestamp # list[j].timestamp}

\* [...signals].sort((a, b) => a.timestamp - b.timestamp)
sortedSignals(list) ==
    [i \in DOMAIN list |->
        CHOOSE x \in Range(list) :
            Cardinality({y \in Range(list) : y.timestamp < x.timestamp}) = i - 1]

UsersOf(list) == {list[i].user : i \in DOMAIN list}

\* UPDATE ... first_to_flag_count + 1, best_signal = ? WHERE user_id = ? AND
\* (best_signal IS NULL OR best_signal = '')
Flagged(row, question) ==
    IF row.best_signal = ""
    THEN [row EXCEPT !.first_to_flag_count = @ + 1, !.best_signal = "flagged"]
    ELSE row

\* the table after the loop: each user once, the first of the sorted list
\* flagged
attributeTradeToContributors(table, list) ==
    LET sorted == sortedSignals(list)
        led == [u \in DOMAIN table |->
                   IF u \in UsersOf(sorted)
                   THEN [table[u] EXCEPT !.signals_that_led_to_trades = @ + 1]
                   ELSE table[u]]
    IN  [led EXCEPT ![sorted[1].user] = Flagged(@, "question")]

\* the table after the loop: a profit is counted once per user and
\* overwrites best_signal
attributeProfitToContributors(table, list, pnl) ==
    [u \in DOMAIN table |->
        IF u \in UsersOf(list) /\ pnl > 0
        THEN [table[u] EXCEPT !.profitable_contributions = @ + 1, !.best_signal = "profit"]
        ELSE table[u]]

\* the user of the signal with the smallest timestamp
Earliest(list) ==
    (CHOOSE x \in Range(list) : \A y \in Range(list) : x.timestamp <= y.timestamp).user

\* tick(), after an accepted bet: attributeTradeToContributors(order)
TradeAttributed ==
    /\ pc = "idle"
    /\ executedTrades < MaxExecuted
    /\ \E list \in SignalLists :
        /\ tradeSignals' = list
        /\ contributors' = attributeTradeToContributors(contributors, list)
        /\ firstFlags' = [firstFlags EXCEPT ![Earliest(list)] = @ + 1]
        /\ contributions' = [u \in Authors |->
                                IF u \in UsersOf(list) THEN contributions[u] + 1
                                ELSE contributions[u]]
    /\ executedTrades' = executedTrades + 1
    /\ UNCHANGED <<pc, ingestVars, tradeVars, bookVars, loopVars, rankVars, enrichVars,
                   mentionVars, clusterVars, edgeVars, sizeVars, checkVars, exitVars, cacheVars,
                   vaultVars, retryVars>>

\* the last trade is closed, with a profit or a loss
ProfitAttributed ==
    /\ pc = "idle"
    /\ tradeSignals # <<>>
    /\ \E pnl \in {-1, 1} :
        contributors' = attributeProfitToContributors(contributors, tradeSignals, pnl)
    /\ tradeSignals' = <<>>
    /\ UNCHANGED <<pc, ingestVars, tradeVars, bookVars, loopVars, rankVars, enrichVars,
                   mentionVars, clusterVars, edgeVars, sizeVars, checkVars, exitVars, cacheVars,
                   vaultVars, retryVars, executedTrades, firstFlags, contributions>>

NextAttribution ==
    \/ TradeAttributed
    \/ ProfitAttributed

SpecAttribution == Init /\ [][NextAttribution]_vars

SpecRetry == Init /\ [][NextRetry]_vars

\* fn settles and the timer of sleep fires
SpecRetryFair ==
    SpecRetry /\ WF_vars(FnSettles) /\ WF_vars(SleepEnds)

(***************************************************************************)
(* Properties of the decision and execution steps.                         *)
(***************************************************************************)
\* open rows on one market
PositionsOn(m) == FilterBag(openTrades, LAMBDA r : r.market_id = m)

\* open rows on the markets whose question starts with the word w
PositionsOnTheme(w) == FilterBag(openTrades, LAMBDA r : r.market_question[1] = w)

\* C1: an order with decision TRADE has size > 0, and so has every persisted
\* row with decision TRADE: an arbitration TRADE whose computed size is 0
\* comes out as PASS.
C1_TradeHasSize ==
    /\ order.decision = "TRADE" => order.size > 0
    /\ \A r \in DOMAIN openTrades : r.decision = "TRADE" => r.size > 0
    /\ \A i \in 1..Len(written) : written[i].decision = "TRADE" => written[i].size > 0

\* the arbitration answered TRADE, the size came out 0, the order was saved as PASS
C1_Witness ==
    /\ answer = "TRADE"
    /\ order.decision = "PASS"
    /\ order.size = 0
    /\ Len(written) = 1
    /\ written[1].decision = "PASS"

C3_LedgerCoversBets ==
    pc # "placed" =>
        \A b \in DOMAIN bets :
            bets[b] <= BagCardinality(
                FilterBag(openTrades,
                          LAMBDA r : r.market_id = b.market_id /\ r.size = b.size))

\* C7: no two open trades on one market.
C7_OnePositionPerMarket ==
    \A m \in Markets : BagCardinality(PositionsOn(m)) <= 1

\* C8: the number of open trades never exceeds maxOpenPositions.
C8_MaxOpenPositions ==
    BagCardinality(openTrades) <= config.maxOpenPositions

\* C9: the open trades never take more than bankroll x (1 - cashReservePct).
C9_CashReserveKept ==
    TotalSize(openTrades) <= config.bankroll - PctOf(config.bankroll, config.cashReservePct)

\* the book is as full as the guards let it become
C9_Witness ==
    /\ pc = "idle"
    /\ BagCardinality(openTrades) > config.maxOpenPositions
    /\ TotalSize(openTrades) > PctOf(config.bankroll, config.maxThemeExposurePct)

\* C10: the open positions on markets sharing a first word never exceed
\* maxThemeExposurePct x bankroll.
C10_ThemeExposureCapped ==
    \A m \in Markets :
        TotalSize(PositionsOnTheme(Question(m)[1]))
            <= PctOf(config.bankroll, config.maxThemeExposurePct)


\* the opportunity the current order was made from
Opportunity ==
    [market |-> order.market, edgeScore |-> order.edgeScore,
     signalCount |-> order.contributingSignals]

\* C13: evaluate applies the portfolio constraints, then the edge-score
\* minimum, then the signal-count minimum; the first guard that fires decides
\* (PASS with the rejection reason, PASS, WATCH, each with size 0) and the
\* arbitration collaborator is asked only when all three pass.
C13_GuardsInOrder ==
    order # NoOrder =>
        LET check == checkPortfolioConstraints(Opportunity, portfolio, config)
        IN  IF ~check.allowed
              THEN /\ order.decision = "PASS" /\ order.size = 0
                   /\ order.reasoning = check.reason
                   /\ answer = "none"
            ELSE IF order.edgeScore < config.minEdgeScore
              THEN /\ order.decision = "PASS" /\ order.size = 0
                   /\ order.reasoning = "Edge score too low"
                   /\ answer = "none"
            ELSE IF order.contributingSignals < config.minSignalsToAct
              THEN /\ order.decision = "WATCH" /\ order.size = 0
                   /\ order.reasoning = "Waiting for more signals"
                   /\ answer = "none"
            ELSE answer # "none"

\* an opportunity below both minimums is a PASS on its edge score, not a WATCH
C13_Witness ==
    /\ order # NoOrder
    /\ checkPortfolioConstraints(Opportunity, portfolio, config).allowed
    /\ order.edgeScore < config.minEdgeScore
    /\ order.contributingSignals < config.minSignalsToAct
    /\ order.decision = "PASS"
    /\ answer = "none"

\* C14: evaluate never throws on a bad arbitration answer: for a reply that
\* is no structured output it returns PASS, size 0 and a diagnostic reasoning.
C14_BadAnswerIsPass ==
    answer \in {"unparseable", "null"} =>
        /\ pc # "threw"
        /\ order.decision = "PASS"
        /\ order.size = 0
        /\ order.reasoning = ParseDefault.reasoning

\* C15: the order evaluate returns has decision TRADE, PASS or WATCH and a
\* reasoning string.
C15_ThreeOutcomes ==
    order # NoOrder =>
        /\ order.decision \in {"TRADE", "PASS", "WATCH"}
        /\ order.reasoning # "undefined"

\* C16: every persisted trade record whose decision is PASS or WATCH has
\* size 0.
C16_NotTradingSizeZero ==
    \A i \in 1..Len(written) :
        written[i].decision \in {"PASS", "WATCH"} => written[i].size = 0

(***************************************************************************)
(* Properties of the book over time.                                       *)
(***************************************************************************)
\* the campaign's bankroll, realized losses included, was at or below the
\* breaker's level when the tick built its portfolio state
BreakerLevelReached ==
    /\ portfolio # NoPortfolio
    /\ bankrollWithPnl(config, [pnl |-> portfolio.totalPnl])
         <= PctOf(config.bankroll, config.drawdownBreakerPct)

\* C11: once realized losses have brought the bankroll to bankroll x
\* drawdownBreakerPct or below, no later tick places a bet or persists a TRADE
\* record.
C11_BreakerStopsTrading ==
    BreakerLevelReached =>
        /\ pc \notin {"placeBet", "placed", "exitRules"}
        /\ \A i \in 1..Len(written) : written[i].decision # "TRADE"

\* C12: a position the execution collaborator no longer holds is absent from
\* the positions of every PortfolioState built afterwards.
C12_ClosedPositionsLeave ==
    [][(pc = "clustered" /\ pc' = "loop") =>
          \A b \in DOMAIN closedAtVenue :
              BagCardinality(RowsOf(portfolio'.positions, b)) + closedAtVenue[b]
                <= BagCardinality(RowsOf(openTrades, b))]_vars

OpenRowStored ==
    /\ written # <<>>
    /\ written[Len(written)] = saveTrade(order, result.txHash)
    /\ written[Len(written)].status = "open"
    /\ BagIn(written[Len(written)], openTrades)

\* C22: when setExitRules is called the open trade row is already stored;
\* whatever the two requests do, setExitRules returns, attribution and
\* publishing follow, and the row stays open.
C22_ExitRulesNeverUnwind ==
    [][/\ pc' = "exitRules" => OpenRowStored'
       /\ (pc = "exitRules" /\ pc' # "down") =>
             /\ exitRules'.called /\ ~exitRules'.threw
             /\ attributed'
             /\ pc' = "loop"
             /\ OpenRowStored']_vars

\* both requests failed, the order is attributed and its row is still open
C22_Witness ==
    /\ pc = "loop"
    /\ exitRules.called
    /\ ~exitRules.stopLossSet /\ ~exitRules.takeProfitSet
    /\ attributed
    /\ OpenRowStored

(***************************************************************************)
(* Properties of the loop.                                                 *)
(***************************************************************************)
\* C17: at most one daily digest is published per date, also after a restart.
C17_OneDigestPerDate ==
    \A d \in DOMAIN digests : digests[d] # "several"

\* C18: a tick that throws does not end the loop: the digest check follows
\* every tick, the sleep follows the digest check whether it threw or not, and
\* another tick follows the sleep unless stop() was called.
C18_LoopSurvives ==
    [][pc' # "down" =>
         \A i \in Activations :
            loops'[i] # loops[i] =>
               /\ loops[i].at = "tick" => loops'[i].at = "digest"
               /\ loops[i].at = "digest" => loops'[i].at \in {"posting", "sleep"}
               /\ loops[i].at = "posting" => loops'[i].at \in {"posted", "sleep"}
               /\ loops[i].at = "posted" => loops'[i].at = "sleep"
               /\ loops[i].at = "sleep" =>
                     loops'[i].at = IF running THEN "tick" ELSE "done"]_vars

\* a tick in progress in the loop whose previous tick threw
C18_Witness ==
    \E i \in Activations : loops[i].at = "tick" /\ loops[i].threw /\ running

\* C19: at most one tick() is in progress at any time, for every interleaving
\* of start() and stop() calls.
C19_OneTickAtATime ==
    Cardinality({i \in Activations : loops[i].at = "tick"}) <= 1

(***************************************************************************)
(* Properties of the ranking.                                              *)
(***************************************************************************)
RECURSIVE SeqToBag(_)
SeqToBag(list) ==
    IF list = <<>> THEN EmptyBag
    ELSE SetToBag({Head(list)}) (+) SeqToBag(Tail(list))

\* the opportunities of the tick evaluate was not called on
Unevaluated == SeqToBag(allOpportunities) (-) SeqToBag(evaluated)

Higher(a, b) == a # NaN /\ b # NaN /\ a > b

\* C20: per tick at most 3 opportunities are evaluated, in descending
\* edgeScore order, and no opportunity left unevaluated has a strictly higher
\* edgeScore than an evaluated one.
C20_TopThreeEvaluated ==
    /\ Len(evaluated) <= TopN
    /\ \A i, j \in 1..Len(evaluated) : i < j => ~Higher(evaluated[j], evaluated[i])
    /\ (pc = "idle" /\ evaluated # <<>>) =>
          \A u \in DOMAIN Unevaluated, i \in 1..Len(evaluated) : ~Higher(u, evaluated[i])

(***************************************************************************)
(* Properties of the ingestion steps.                                      *)
(***************************************************************************)
\* the mentions the saved cursor has passed and no running tick still holds
Passed == {id \in DOMAIN timeline : id <= savedLastSeenId /\ id \notin Range(mentions)}

SignalsOf(a, d) == {id \in signals : timeline[id].author = a /\ timeline[id].day = d}

\* C4: no mention id is handed to the enricher more than once, across ticks,
\* failed ticks, shutdowns and restarts.
C4_EnrichedAtMostOnce ==
    \A id \in DOMAIN enrichCalls : enrichCalls[id] <= 1

\* a restarted process, its cursor restored, has fetched and enriched newer
\* mentions than the ones enriched before the restart
C4_Witness ==
    /\ restored
    /\ pc = "enriched"
    /\ \E old \in DOMAIN enrichCalls, new \in Range(mentions) :
          old < new /\ old \notin Range(mentions)
          /\ enrichCalls[old] = 1 /\ enrichCalls[new] = 1

\* C5 as stated: every mention a poll produced is consumed exactly once by
\* enrichBatch, never zero times.
C5_ExactlyOnce ==
    \A id \in Passed : enrichCalls[id] = 1

\* C5: a mention a poll produced is consumed by enrichBatch at most once, and
\* exactly once unless the rate-limit filter dropped it or its tick ended
\* before enrichBatch was called.
C5_OnceUnlessDropped ==
    \A id \in Passed :
        \/ enrichCalls[id] = 1
        \/ enrichCalls[id] = 0 /\ id \in skipped

\* an author at the daily limit: the earlier mentions were consumed once, the
\* one just fetched is dropped by the rate limit
C5_Witness ==
    /\ pc = "enriched"
    /\ \E one \in Passed, none \in Range(mentions) :
          /\ enrichCalls[one] = 1
          /\ enrichCalls[none] = 0
          /\ none \in skipped
          /\ getUserSignalCountToday(timeline[none].author) >= config.maxSignalsPerUserPerDay

\* C6: for every author and every day, at most maxSignalsPerUserPerDay of the
\* author's signals of that day are persisted.
C6_DailyLimitKept ==
    \A a \in Authors, d \in 1..MaxDays :
        Cardinality(SignalsOf(a, d)) <= config.maxSignalsPerUserPerDay

(***************************************************************************)
(* Properties of the enrichment.                                           *)
(***************************************************************************)
InFlight == started \ completed

\* the chunk a position of filtered belongs to
ChunkNo(k) == (k - 1) \div ChunkSize

PositionIn(m) == CHOOSE k \in 1..Len(filtered) : filtered[k] = m

\* C23: at most 5 classification calls are in flight, no call of a later chunk
\* starts before every call of the earlier chunks has returned, and only
\* mentions passing the account age and follower minimums are submitted.
C23_BoundedFanOut ==
    /\ Cardinality(InFlight) <= 5
    /\ \A m \in started :
          /\ batchMentions[m].accountAgeDays >= MinAccountAgeDays
          /\ batchMentions[m].followers >= MinFollowers
          /\ \E k \in 1..Len(filtered) : filtered[k] = m
    /\ \A m \in InFlight : \A k \in 1..Len(filtered) :
          ChunkNo(k) < ChunkNo(PositionIn(m)) => filtered[k] \in completed

\* the second chunk is in flight, after a batch that held a filtered-out mention
C23_Witness ==
    /\ chunkStart = ChunkSize
    /\ InFlight # {}
    /\ Len(filtered) < Len(batchMentions)

\* the highest of the scores likes + 2 reshares + 3 quote shares among the
\* mention's own engagement, its nearest ancestor's and its quoted message's
HighestScore ==
    LET own == mention.engagement
        ctx == mention.conversationContext
        scores == {own.likes + 2 * own.retweets + 3 * own.quoteTweets}
                  \cup (IF ctx = <<>> THEN {}
                        ELSE {ctx[Len(ctx)].likes + 2 * ctx[Len(ctx)].retweets
                                + 3 * ctx[Len(ctx)].quoteTweets})
                  \cup {q.likes + 2 * q.retweets + 3 * q.quoteTweets :
                           q \in Range(mention.quotedTweet)}
    IN  CHOOSE x \in scores : \A y \in scores : y <= x

\* the source whose score is the highest
HighestSources ==
    {e \in Engagements : e.likes + 2 * e.retweets + 3 * e.quoteTweets = HighestScore}

\* C24: a classification flagged as noise (is_noise, or type noise) and an
\* unparseable one give null; any other gives a signal whose weight is
\* engagementWeight of the source with the highest score.
C24_NoiseDroppedBestWeighs ==
    pc = "classified" =>
        IF \/ classification.kind = "unparseable"
           \/ (classification.kind = "object"
                /\ (classification.is_noise = "true" \/ classification.signal_type = "noise"))
        THEN enrichedSignal = Null
        ELSE /\ classification.kind \notin {"error", "null"} => enrichedSignal # Null
             /\ enrichedSignal # Null =>
                   /\ enrichedSignal.kind = "signal"
                   /\ enrichedSignal.signalType # "noise"
                   /\ \E e \in HighestSources : enrichedSignal.weight = engagementWeight(e)

\* a signal whose weight comes from the closest parent, which outscores the
\* mention itself, the root of the conversation and the quoted message
C24_Witness ==
    /\ pc = "classified"
    /\ enrichedSignal # Null
    /\ Len(mention.conversationContext) = 2
    /\ mention.quotedTweet # <<>>
    /\ Score(mention.conversationContext[2]) > Score(mention.engagement)
    /\ Score(mention.conversationContext[2]) > Score(mention.quotedTweet[1])
    /\ Score(mention.conversationContext[2]) > Score(mention.conversationContext[1])

(***************************************************************************)
(* Properties of the clustering.                                           *)
(***************************************************************************)
\* C25: no input signal is a member of two returned clusters.
C25_NoSignalInTwoClusters ==
    \A a \in 1..Len(clusters), b \in 1..Len(clusters) :
        a # b => Range(clusters[a].signals) \cap Range(clusters[b].signals) = {}

\* C26: a returned cluster has at least 2 members, all of them input signals,
\* and signalCount members; fewer than 2 input signals give no cluster and
\* no request to the collaborator.
C26_ClustersWellFormed ==
    /\ \A c \in 1..Len(clusters) :
          /\ Len(clusters[c].signals) >= 2
          /\ Range(clusters[c].signals) \subseteq 0..(recentSignals - 1)
          /\ clusters[c].signalCount = Len(clusters[c].signals)
    /\ (pc = "grouped" /\ recentSignals < 2) => clusters = <<>>
    /\ (pc = "grouping") => recentSignals >= 2

(***************************************************************************)
(* Properties of the edge scoring.                                         *)
(***************************************************************************)
\* the mappings of the answer whose market index is in range
ResolvableMappings ==
    IF mappingAnswer.kind = "object"
    THEN {k \in 1..Len(mappingAnswer.mappings) :
            mappingAnswer.mappings[k].market_index \in 0..(Len(topMarkets) - 1)}
    ELSE {}

\* C27: whatever the mapping collaborator answers, malformed JSON and
\* out-of-range market indices included, findEdge returns the opportunities
\* of the resolvable mappings and the loop over the clusters goes on.
C27_FindEdgeNeverAborts ==
    mappingAnswer # NoAnswer =>
        /\ pc = "edges"
        /\ Len(opportunities) = Cardinality(ResolvableMappings)

\* the price of the mapped market for the mapped direction
PriceFor(o) ==
    IF o.direction = "YES" THEN topMarkets[o.market + 1][1] ELSE topMarkets[o.market + 1][2]

\* C28: an opportunity carries the market's price p for its direction,
\* |implied probability - p| as its discrepancy, and
\* min(1, clusterWeight/20) x discrepancy x time value as its edge score.
C28_EdgeScoreFormula ==
    \A k \in 1..Len(opportunities) :
        LET o == opportunities[k]
            p == PriceFor(o)
            diff == IF o.signalImpliedProbability >= p
                    THEN o.signalImpliedProbability - p ELSE p - o.signalImpliedProbability
            strength == IF cluster.clusterWeight >= 20 THEN 10000
                        ELSE cluster.clusterWeight * 500
            tv == IF "breaking" \in cluster.urgency THEN 10
                  ELSE IF "developing" \in cluster.urgency THEN 7 ELSE 4
        IN  /\ o.currentMarketPrice = p
            /\ o.priceDiscrepancy = diff
            /\ o.edgeScore = strength * diff * tv

(***************************************************************************)
(* Properties of the position sizing.  Amounts are in cents.               *)
(***************************************************************************)
\* C29: a size other than 0 (no position) is never above
\* min(maxPositionPct x bankroll, cashAvailable - cashReservePct x bankroll),
\* the rounding included.
C29_SizeWithinCaps ==
    (pc = "sized" /\ positionSize > 0) =>
        /\ positionSize * 10000 <= sizing.maxPositionPct * sizing.bankroll
        /\ positionSize <= sizing.cashAvailable - (CashReservePct * sizing.bankroll) \div 10000

\* the reference sizing: 2x, 1x or 0.5x the base fraction for an edge score
\* above 0.8, above 0.5 or neither; the least of that amount, the position
\* cap and the cash above the reserve; 0 below the minimum, else rounded to
\* whole dollars
ReferenceSize ==
    LET pct == IF sizing.edgeScore > 80 THEN 2 * BasePositionPct
               ELSE IF sizing.edgeScore > 50 THEN BasePositionPct
               ELSE BasePositionPct \div 2
        amounts == {(sizing.bankroll * pct) \div 10000,
                    (sizing.bankroll * sizing.maxPositionPct) \div 10000,
                    sizing.cashAvailable - (sizing.bankroll * CashReservePct) \div 10000}
        capped == CHOOSE x \in amounts : \A y \in amounts : x <= y
    IN  IF capped < MinPositionUsd THEN 0
        ELSE ((capped + 50) \div 100) * 100

\* C30: calculatePositionSize returns what the reference sizing returns.
C30_SizeAgreesWithReference ==
    pc = "sized" => positionSize = ReferenceSize

\* bankroll 10,000, base 0.02, edge score 0.85, cap 0.05, minimum 50: 400
C30_Witness ==
    /\ pc = "sized"
    /\ sizing = [edgeScore |-> 85, bankroll |-> 1000000, cashAvailable |-> 1000000,
                 maxPositionPct |-> 500]
    /\ positionSize = 40000

(***************************************************************************)
(* Claims on checkPortfolioConstraints.                                    *)
(***************************************************************************)
\* the one open position is on the opportunity's market
SameMarket == pc = "checked" /\ constraintInput.market = "m1"

\* a guard ahead of the duplicate-position guard rejects
EarlierGuardRejects ==
    \/ 1 >= config.maxOpenPositions
    \/ constraintInput.bankroll <= PctOf(config.bankroll, config.drawdownBreakerPct)
    \/ constraintInput.size > PctOf(constraintInput.bankroll, config.maxThemeExposurePct)

\* C31 as stated: with one open position on the opportunity's market the
\* call is rejected for the reason 'already have a position', for every edge
\* score and every size of the position
C31_AlwaysDuplicateReason ==
    SameMarket =>
        /\ ~constraintResult.allowed
        /\ constraintResult.reason = "already have a position"

\* C31 amended: with one open position on the opportunity's market the call
\* is rejected for every edge score and every size, and the reason is
\* 'already have a position' exactly when no earlier guard rejects
C31_DuplicateRejected ==
    SameMarket =>
        /\ ~constraintResult.allowed
        /\ constraintResult.reason = "already have a position" <=> ~EarlierGuardRejects

C31_Witness ==
    /\ SameMarket
    /\ ~EarlierGuardRejects
    /\ constraintInput.edgeScore = 90
    /\ constraintResult.reason = "already have a position"

(***************************************************************************)
(* Claims on calculateExitLevels.                                          *)
(***************************************************************************)
\* the fraction is strictly between 0 and 1
InsideUnit(x) == 0 < x.num /\ x.num < x.den

\* C32: for every entry price in (0,1), either direction and every accepted
\* stopLossPercent and takeProfitMultiple, the stop-loss and the take-profit
\* price are strictly between 0 and 1
C32_ExitLevelsInsideUnit ==
    pc = "exits" =>
        /\ InsideUnit(exitLevels.stopLoss)
        /\ InsideUnit(exitLevels.takeProfit)

\* both clamps act: a NO position entered at 0.9999 with the widest stop and
\* the largest multiple
C32_Witness ==
    /\ pc = "exits"
    /\ exitInput.direction = "NO"
    /\ exitInput.entryPrice = 9999
    /\ exitInput.stopLossPercent = 10000
    /\ exitLevels.stopLoss = [num |-> 99000000, den |-> 100000000]
    /\ exitLevels.takeProfit.num = PriceFloor * exitInput.takeProfitMultiple

(***************************************************************************)
(* Claims on the instrument catalog.                                       *)
(***************************************************************************)
\* C33: fetchActiveMarkets is called at most once per 15-minute window:
\* two calls in a row are at least one refresh interval apart
C33_OneFetchPerWindow ==
    \A i \in 1..(Len(fetchLog) - 1) : fetchLog[i + 1] - fetchLog[i] >= cacheIntervalMs

(***************************************************************************)
(* Claims on the vault.                                                    *)
(***************************************************************************)
\* C34: reportAssets(x) reverts and leaves reportedTotalAssets and
\* lastReportAt unchanged when x is below the on-chain balance or the caller
\* is not the accountant; otherwise it sets reportedTotalAssets to x
C34_ReportRequiresSolvent ==
    [][vaultCall'.op = "reportAssets" =>
         IF vaultCall'.amount < assetBalance \/ vaultCall'.caller # accountant
         THEN /\ vaultCall'.reverted
              /\ UNCHANGED <<reportedTotalAssets, lastReportAt>>
         ELSE /\ ~vaultCall'.reverted
              /\ reportedTotalAssets' = vaultCall'.amount
              /\ lastReportAt' = blockTime]_vars

\* an under-report by the accountant has reverted, and an honest report has
\* been taken: the accountant's earlier report stands
C34_Witness ==
    /\ vaultCall = Call("reportAssets", accountant, 1, TRUE)
    /\ assetBalance = 2
    /\ reportedTotalAssets = 3
    /\ lastReportAt = 1
    /\ blockTime = 2

\* C35: reportedTotalAssets changes only so: a deposit adds what entered the
\* vault, a withdrawal subtracts what left it, reportAssets sets it, and
\* pullToManager leaves it unchanged while the on-chain balance falls by the
\* pulled amount
C35_ReportedChangesOnlyBy ==
    [][CASE vaultCall'.reverted -> UNCHANGED <<reportedTotalAssets, assetBalance>>
         [] vaultCall'.op = "deposit" ->
                /\ reportedTotalAssets' = reportedTotalAssets + vaultCall'.amount
                /\ assetBalance' = assetBalance + vaultCall'.amount
         [] vaultCall'.op = "mint" ->
                reportedTotalAssets' - reportedTotalAssets = assetBalance' - assetBalance
         [] vaultCall'.op = "withdraw" ->
                /\ reportedTotalAssets' = reportedTotalAssets - vaultCall'.amount
                /\ assetBalance' = assetBalance - vaultCall'.amount
         [] vaultCall'.op = "redeem" ->
                reportedTotalAssets - reportedTotalAssets' = assetBalance - assetBalance'
         [] vaultCall'.op = "reportAssets" -> reportedTotalAssets' = vaultCall'.amount
         [] vaultCall'.op = "pullToManager" ->
                /\ reportedTotalAssets' = reportedTotalAssets
                /\ assetBalance' = assetBalance - vaultCall'.amount
         [] OTHER -> reportedTotalAssets' = reportedTotalAssets]_vars

\* the manager has pulled assets: the reported total is above the balance
C35_Witness ==
    /\ vaultCall = Call("pullToManager", manager, 1, FALSE)
    /\ reportedTotalAssets = 2
    /\ assetBalance = 1

\* C36: in every reachable state no owner can withdraw, or redeem shares
\* for, more than the assets the vault holds on chain
C36_WithdrawWithinLiquidity ==
    \A owner \in Holders :
        /\ maxWithdraw(owner) <= availableAssets
        /\ convertToAssets(maxRedeem(owner)) <= availableAssets

\* after a pull, a holder's shares are worth more than the vault holds
C36_Witness ==
    /\ shares["alice"] = 2
    /\ convertToAssets(shares["alice"]) = 2
    /\ availableAssets = 1
    /\ maxWithdraw("alice") = 1

(***************************************************************************)
(* Claims on withRetry and on placeBet.                                    *)
(***************************************************************************)
InRetry == pc \in {"retrying", "sleeping", "returned", "threw"}

\* the errors withRetry is to retry: a retryable status, a transient error
RetryableErrors == {"status", "refused", "lost"}

LastAttempt == attemptLog[Len(attemptLog)]

\* every invocation before the last was rejected with a retryable error and
\* followed by one sleep
EarlierRetried ==
    /\ \A i \in 1..(Len(attemptLog) - 1) :
           attemptLog[i] \in RetryableErrors
    /\ sleeps = Len(attemptLog) - 1

\* C37: withRetry invokes fn at most maxRetries + 1 times and terminates: it
\* returns the first result, rethrows a non-retryable error without
\* sleeping, and rethrows the last error when the attempts are exhausted
C37_BoundedRetries ==
    /\ [](InRetry =>
            /\ Len(attemptLog) <= maxRetries + 1
            /\ pc = "returned" => LastAttempt \in Resolved /\ EarlierRetried
            /\ pc = "threw" =>
                   /\ Len(attemptLog) > 0
                   /\ LastAttempt \in Rejected
                   /\ EarlierRetried
                   /\ LastAttempt \in RetryableErrors => Len(attemptLog) = maxRetries + 1)
    /\ (pc = "retrying" ~> pc \in {"returned", "threw"})

\* the attempts are exhausted: three retryable errors, the last one differs
\* from the first, two sleeps
C37_Witness ==
    /\ pc = "threw"
    /\ maxRetries = 2
    /\ attemptLog = <<"status", "refused", "lost">>
    /\ sleeps = 2

\* C38: for one order the execution collaborator accepts at most one
\* placement request from placeBet
C38_OnePlacementPerOrder ==
    label = "VincentAPI.placeBet()" => placed <= 1

(***************************************************************************)
(* Claims on the records of a tick.                                        *)
(***************************************************************************)
\* C39: once the loop is through with an opportunity that evaluate returned
\* an order for, exactly one trade record has been persisted for it,
\* whatever decision the arbitration collaborator answered
C39_OneRecordPerOpportunity ==
    (pc = "loop" /\ order # NoOrder) => Len(written) = 1

(***************************************************************************)
(* Claims on the contributors table.                                       *)
(***************************************************************************)
\* C40: after any sequence of executed trades each contributor's
\* first_to_flag_count is the number of executed trades whose earliest
\* signal was theirs, and their signals_that_led_to_trades is the number of
\* executed trades they contributed to
C40_AttributionCounts ==
    \A u \in Authors :
        /\ contributors[u].first_to_flag_count = firstFlags[u]
        /\ contributors[u].signals_that_led_to_trades = contributions[u]

\* the second half alone: signals_that_led_to_trades grows by exactly 1 per
\* executed trade a contributor has a signal in
LedToTradesOncePerTrade ==
    \A u \in Authors : contributors[u].signals_that_led_to_trades = contributions[u]

====
